---- MODULE Spec2Model ----
(***************************************************************************)
(* Lowering of statements to basic blocks in the code generators of the    *)
(* repository:                                                             *)
(*   mini  : src/src/CodeGen.cpp, src/src/CodeGen.h   (mini::*::codegen)    *)
(*   cg    : src/src/codegen.cpp                      (CodeGen)             *)
(*   irgen : src/src/ir_generator.cpp                 (clike::IRGenerator)  *)
(*   cgen  : src/codegen.cpp                          (CodeGenerator)       *)
(*   ast   : src/ast.cpp                              (Statement::codegen)  *)
(* Lowering is syntax directed and single pass, so the statement that is   *)
(* lowered next is an input of the step that lowers it: the function body  *)
(* is drawn one statement at a time, and `stack` holds the handlers that   *)
(* are suspended in a call to a child's codegen.                           *)
(***************************************************************************)
EXTENDS Integers, Sequences, FiniteSets, TLC

VARIABLES
  gen,        \* the code generator that runs
  pc,         \* "idle" | "run" | "verify" | "done" | "failed" | "crashed"
  blocks,     \* every BasicBlock created, by id: [label, instrs]
  fnBlocks,   \* ids of the blocks inserted into the function, in order
  cursor,     \* the builder's insertion block (0: none)
  scopes,     \* the symbol environment: a stack of maps name -> slot
  nslots,     \* number of stack slots (allocas) created
  stack,      \* suspended handlers, innermost last
  ret,        \* value returned to the handler on top: "none" | "val" | "null"
  fuel,       \* statements that may still be drawn
  loops,      \* break/continue targets: <<exit block, continue block>>
  lexical,    \* the AST's lexical scopes at the point being lowered
  depth0,     \* depth of `scopes` before the function was entered
  inModule,   \* the function is in the module
  retType,    \* return type of the function: "int" | "void" | "double"
  inp,        \* the construct handed to a single lowering or parsing routine
  out,        \* what that routine returned and emitted
  lexer       \* the fields of the Lexer object that reads inp

vars == <<gen, pc, blocks, fnBlocks, cursor, scopes, nslots, stack, ret,
          fuel, loops, lexical, depth0, inModule, retType, inp, out, lexer>>

\* ------------------------------------------------------------- bounds
MaxStmts == 3

\* the number of statements of a function body made of loops, if and compound
\* statements, break and continue only
MaxLoopStmts == 5

\* the statements of a body drawn for the if lowerings
MaxIfStmts == 3

Names == {"x"}

\* ------------------------------------------------------------- the IR
Instr(op, x, y) == [op |-> op, x |-> x, y |-> y]

IsTerminator(i) == i.op \in {"br", "condbr", "ret"}

\* BasicBlock::getTerminator: the last instruction if it is a terminator
GetTerminator(bs, b) ==
  /\ bs[b].instrs # <<>>
  /\ IsTerminator(bs[b].instrs[Len(bs[b].instrs)])

\* BasicBlock::Create
NewBlock(bs, label) == Append(bs, [label |-> label, instrs |-> <<>>])

\* IRBuilder::Create*: the instruction goes to the end of the cursor's block
Emit(bs, b, i) == [bs EXCEPT ![b].instrs = Append(@, i)]

RECURSIVE EmitAll(_, _, _)
EmitAll(bs, b, is) ==
  IF is = <<>> THEN bs ELSE EmitAll(Emit(bs, b, Head(is)), b, Tail(is))

\* a builder at function->getEntryBlock().begin()
EmitAtEntryBegin(bs, fb, i) == [bs EXCEPT ![fb[1]].instrs = <<i>> \o @]

\* ------------------------------------------------------------- scopes
EmptyScope == [n \in {} |-> 0]

Bind(scope, name, slot) ==
  [n \in (DOMAIN scope) \cup {name} |-> IF n = name THEN slot ELSE scope[n]]

\* innermost scope first, the first match wins; 0: not found
RECURSIVE Lookup(_, _)
Lookup(ss, name) ==
  IF ss = <<>> THEN 0
  ELSE IF name \in DOMAIN ss[Len(ss)] THEN ss[Len(ss)][name]
  ELSE Lookup(SubSeq(ss, 1, Len(ss) - 1), name)

BindTop(ss, name, slot) == [ss EXCEPT ![Len(ss)] = Bind(@, name, slot)]

PopSeq(s) == SubSeq(s, 1, Len(s) - 1)

\* ------------------------------------------------------------- inputs
NumE == [k |-> "num", name |-> ""]
VarE(n) == [k |-> "var", name |-> n]
NoE == [k |-> "none", name |-> ""]
Exprs == {NumE} \cup {VarE(n) : n \in Names}
OptExprs == Exprs \cup {NoE}
ParamLists == {<<>>} \cup {<<n>> : n \in Names}

\* ------------------------------------------------------------- frames
Frame(k, b1, b2, b3, f) == [k |-> k, b1 |-> b1, b2 |-> b2, b3 |-> b3, f |-> f]
Top == stack[Len(stack)]

Init ==
  /\ gen \in {"mini", "cg", "irgen", "cgen", "ast"}
  /\ pc = "idle"
  /\ blocks = <<>>
  /\ fnBlocks = <<>>
  /\ cursor = 0
  /\ scopes = <<EmptyScope>>
  /\ nslots = 0
  /\ stack = <<>>
  /\ ret = "none"
  /\ fuel \in {MaxStmts, MaxLoopStmts, MaxIfStmts}
  /\ loops = <<>>
  /\ lexical = <<>>
  /\ depth0 = Len(scopes)
  /\ inModule = FALSE
  /\ retType \in {"int", "void", "double"}
  /\ inp = <<>>
  /\ out = <<>>
  /\ lexer = <<>>

\* ------------------------------------------------------------- verifier
\* what llvm::verifyFunction requires of a block: it ends in a terminator and
\* holds no other terminator
WellFormedBlock(bs, b) ==
  /\ GetTerminator(bs, b)
  /\ \A i \in 1..(Len(bs[b].instrs) - 1) : ~IsTerminator(bs[b].instrs[i])

VerifyFunction(bs, fb) == \A i \in 1..Len(fb) : WellFormedBlock(bs, fb[i])

\* ===================================================================
\* mini: src/src/CodeGen.cpp with CodeGenContext of src/src/CodeGen.h
\* ===================================================================

\* CodeGenContext::getVariableAlloca
getVariableAlloca(ss, name) == Lookup(ss, name)

\* CodeGenContext::setVariableAlloca
setVariableAlloca(ss, name, slot) ==
  IF ss = <<>> THEN <<Bind(EmptyScope, name, slot)>> ELSE BindTop(ss, name, slot)

\* CodeGenContext::pushScope
pushScope(ss) == Append(ss, EmptyScope)

\* CodeGenContext::popScope
popScope(ss) == IF ss # <<>> THEN PopSeq(ss) ELSE ss

\* CodeGenContext::createEntryBlockAlloca
createEntryBlockAlloca(bs, fb, slot) ==
  EmitAtEntryBegin(bs, fb, Instr("alloca", slot, 0))

\* NumberExpr::codegen, VariableExpr::codegen: ok is FALSE when it throws
MiniExpr(e, ss) ==
  IF e.k = "num" THEN [ok |-> TRUE, code |-> <<>>, const |-> TRUE]
  ELSE LET a == getVariableAlloca(ss, e.name) IN
       IF a = 0 THEN [ok |-> FALSE, code |-> <<>>, const |-> FALSE]
       ELSE [ok |-> TRUE, code |-> <<Instr("load", a, 0)>>, const |-> FALSE]

\* CodeGenContext::toBoolean of an i32 value: icmp ne 0, folded for a constant
toBoolean(r) == IF r.const THEN <<>> ELSE <<Instr("icmp", 0, 0)>>

\* the loop over function->args() of FunctionAST::codegen
RECURSIVE MiniArgs(_, _, _)
MiniArgs(ps, st, entry) ==
  IF ps = <<>> THEN st
  ELSE LET a == st.n + 1
           b1 == createEntryBlockAlloca(st.blocks, <<entry>>, a)
           b2 == Emit(b1, entry, Instr("store", a, 0))
       IN MiniArgs(Tail(ps),
                   [blocks |-> b2, scope |-> Bind(st.scope, Head(ps), a), n |-> a],
                   entry)

\* a position of BlockStmt::codegen's loop at which a statement is lowered
MiniStmtPos ==
  /\ gen = "mini" /\ pc = "run" /\ stack # <<>>
  /\ Top.k = "list"
  /\ fuel > 0
  /\ ~GetTerminator(blocks, cursor)

\* FunctionAST::codegen up to the call of body->codegen
MiniFunctionBegin(params) ==
  /\ gen = "mini" /\ pc = "idle"
  /\ LET bs0 == NewBlock(blocks, "entry")
         entry == Len(bs0)
         st == MiniArgs(params, [blocks |-> bs0, scope |-> EmptyScope, n |-> nslots], entry)
     IN /\ blocks' = st.blocks
        /\ fnBlocks' = <<entry>>
        /\ cursor' = entry
        /\ scopes' = Append(scopes, st.scope)
        /\ nslots' = st.n
        /\ lexical' = <<st.scope>>
        /\ stack' = <<Frame("fn", entry, 0, 0, FALSE), Frame("blk", 0, 0, 0, FALSE)>>
  /\ inModule' = TRUE
  /\ pc' = "run"
  /\ UNCHANGED <<lexer, inp, out, gen, ret, fuel, loops, depth0, retType>>

\* BlockStmt::codegen: pushScope, for a function body, an arm or a nested block
MiniBlockBegin ==
  /\ gen = "mini" /\ pc = "run" /\ stack # <<>>
  /\ \/ /\ Top.k = "blk"
        /\ stack' = Append(PopSeq(stack), Frame("list", 0, 0, 0, FALSE))
        /\ fuel' = fuel
     \/ /\ MiniStmtPos
        /\ stack' = Append(stack, Frame("list", 0, 0, 0, FALSE))
        /\ fuel' = fuel - 1
  /\ scopes' = pushScope(scopes)
  /\ lexical' = Append(lexical, EmptyScope)
  /\ UNCHANGED <<lexer, inp, out, gen, pc, blocks, fnBlocks, cursor, nslots, ret, loops, depth0,
                 inModule, retType>>

\* BlockStmt::codegen: the loop is left (no statement is left, or the cursor's
\* block has a terminator), popScope
MiniBlockEnd ==
  /\ gen = "mini" /\ pc = "run" /\ stack # <<>>
  /\ Top.k = "list"
  /\ scopes' = popScope(scopes)
  /\ lexical' = PopSeq(lexical)
  /\ stack' = PopSeq(stack)
  /\ UNCHANGED <<lexer, inp, out, gen, pc, blocks, fnBlocks, cursor, nslots, ret, fuel, loops,
                 depth0, inModule, retType>>

\* ExprStmt::codegen
MiniExprStmt(e) ==
  /\ MiniStmtPos
  /\ LET r == MiniExpr(e, scopes) IN
     /\ blocks' = EmitAll(blocks, cursor, r.code)
     /\ IF r.ok THEN pc' = pc /\ stack' = stack
                ELSE pc' = "failed" /\ stack' = <<>>
  /\ fuel' = fuel - 1
  /\ UNCHANGED <<lexer, inp, out, gen, fnBlocks, cursor, scopes, nslots, ret, loops, lexical,
                 depth0, inModule, retType>>

\* ReturnStmt::codegen
MiniReturn(v) ==
  /\ MiniStmtPos
  /\ LET r == IF v = NoE THEN [ok |-> TRUE, code |-> <<>>, const |-> TRUE]
                         ELSE MiniExpr(v, scopes) IN
     IF r.ok
     THEN /\ blocks' = Emit(EmitAll(blocks, cursor, r.code), cursor, Instr("ret", 1, 0))
          /\ pc' = pc /\ stack' = stack
     ELSE /\ blocks' = blocks
          /\ pc' = "failed" /\ stack' = <<>>
  /\ fuel' = fuel - 1
  /\ UNCHANGED <<lexer, inp, out, gen, fnBlocks, cursor, scopes, nslots, ret, loops, lexical,
                 depth0, inModule, retType>>

\* VarDeclStmt::codegen
MiniVarDecl(name, init) ==
  /\ MiniStmtPos
  /\ LET a == nslots + 1
         bs1 == createEntryBlockAlloca(blocks, fnBlocks, a)
         ss1 == setVariableAlloca(scopes, name, a)
         r == IF init = NoE THEN [ok |-> TRUE, code |-> <<>>, const |-> TRUE]
                            ELSE MiniExpr(init, ss1)
     IN /\ nslots' = a
        /\ scopes' = ss1
        /\ lexical' = BindTop(lexical, name, a)
        /\ IF r.ok
           THEN /\ blocks' = Emit(EmitAll(bs1, cursor, r.code), cursor, Instr("store", a, 0))
                /\ pc' = pc /\ stack' = stack
           ELSE /\ blocks' = bs1
                /\ pc' = "failed" /\ stack' = <<>>
  /\ fuel' = fuel - 1
  /\ UNCHANGED <<lexer, inp, out, gen, fnBlocks, cursor, ret, loops, depth0, inModule, retType>>

\* the false edge of CreateCondBr with every if sent to its else block
FalseEdgeToElse(hasElse, elseBB, mergeBB) == elseBB

\* the false edge of IfStmt::codegen's CreateCondBr: elseBlock ? elseBB : mergeBB
FalseEdge(hasElse, elseBB, mergeBB) == IF hasElse THEN elseBB ELSE mergeBB

\* IfStmt::codegen up to the call of thenBlock->codegen
MiniIfBegin(cond, hasElse) ==
  /\ MiniStmtPos
  /\ LET r == MiniExpr(cond, scopes)
         bs1 == EmitAll(blocks, cursor, r.code \o toBoolean(r))
         bs2 == NewBlock(bs1, "then")
         thenBB == Len(bs2)
         bs3 == NewBlock(bs2, "else")
         elseBB == Len(bs3)
         bs4 == NewBlock(bs3, "ifend")
         mergeBB == Len(bs4)
         bs5 == Emit(bs4, cursor,
                     Instr("condbr", thenBB, FalseEdge(hasElse, elseBB, mergeBB)))
     IN IF r.ok
        THEN /\ blocks' = bs5
             /\ fnBlocks' = Append(fnBlocks, thenBB)
             /\ cursor' = thenBB
             /\ stack' = stack \o <<Frame("then", thenBB, elseBB, mergeBB, hasElse),
                                    Frame("blk", 0, 0, 0, FALSE)>>
             /\ pc' = pc
        ELSE /\ pc' = "failed" /\ stack' = <<>>
             /\ UNCHANGED <<blocks, fnBlocks, cursor>>
  /\ fuel' = fuel - 1
  /\ UNCHANGED <<lexer, inp, out, gen, scopes, nslots, ret, loops, lexical, depth0, inModule, retType>>

\* IfStmt::codegen from the return of thenBlock->codegen
MiniIfThenEnd ==
  /\ gen = "mini" /\ pc = "run" /\ stack # <<>>
  /\ Top.k = "then"
  /\ LET f == Top
         bs1 == IF ~GetTerminator(blocks, f.b1)
                THEN Emit(blocks, cursor, Instr("br", f.b3, 0)) ELSE blocks
     IN /\ blocks' = bs1
        /\ IF f.f
           THEN /\ fnBlocks' = Append(fnBlocks, f.b2)
                /\ cursor' = f.b2
                /\ stack' = PopSeq(stack) \o <<Frame("else", f.b1, f.b2, f.b3, TRUE),
                                               Frame("blk", 0, 0, 0, FALSE)>>
           ELSE /\ fnBlocks' = Append(fnBlocks, f.b3)
                /\ cursor' = f.b3
                /\ stack' = PopSeq(stack)
  /\ UNCHANGED <<lexer, inp, out, gen, pc, scopes, nslots, ret, fuel, loops, lexical, depth0,
                 inModule, retType>>

\* IfStmt::codegen from the return of elseBlock->codegen
MiniIfElseEnd ==
  /\ gen = "mini" /\ pc = "run" /\ stack # <<>>
  /\ Top.k = "else"
  /\ LET f == Top
         bs1 == IF ~GetTerminator(blocks, f.b2)
                THEN Emit(blocks, cursor, Instr("br", f.b3, 0)) ELSE blocks
     IN /\ blocks' = bs1
        /\ fnBlocks' = Append(fnBlocks, f.b3)
        /\ cursor' = f.b3
        /\ stack' = PopSeq(stack)
  /\ UNCHANGED <<lexer, inp, out, gen, pc, scopes, nslots, ret, fuel, loops, lexical, depth0,
                 inModule, retType>>

\* WhileStmt::codegen up to the call of body->codegen
MiniWhileBegin(cond) ==
  /\ MiniStmtPos
  /\ LET bs1 == NewBlock(blocks, "while.cond")
         condBB == Len(bs1)
         bs2 == NewBlock(bs1, "while.body")
         bodyBB == Len(bs2)
         bs3 == NewBlock(bs2, "while.end")
         exitBB == Len(bs3)
         bs4 == Emit(bs3, cursor, Instr("br", condBB, 0))
         r == MiniExpr(cond, scopes)
         bs5 == EmitAll(bs4, condBB, r.code \o toBoolean(r))
         bs6 == Emit(bs5, condBB, Instr("condbr", bodyBB, exitBB))
     IN IF r.ok
        THEN /\ blocks' = bs6
             /\ fnBlocks' = fnBlocks \o <<condBB, bodyBB>>
             /\ cursor' = bodyBB
             /\ stack' = stack \o <<Frame("wbody", condBB, bodyBB, exitBB, FALSE),
                                    Frame("blk", 0, 0, 0, FALSE)>>
             /\ pc' = pc
        ELSE /\ blocks' = bs4
             /\ fnBlocks' = Append(fnBlocks, condBB)
             /\ cursor' = condBB
             /\ pc' = "failed" /\ stack' = <<>>
  /\ fuel' = fuel - 1
  /\ UNCHANGED <<lexer, inp, out, gen, scopes, nslots, ret, loops, lexical, depth0, inModule, retType>>

\* WhileStmt::codegen from the return of body->codegen
MiniWhileEnd ==
  /\ gen = "mini" /\ pc = "run" /\ stack # <<>>
  /\ Top.k = "wbody"
  /\ LET f == Top
         bs1 == IF ~GetTerminator(blocks, f.b2)
                THEN Emit(blocks, cursor, Instr("br", f.b1, 0)) ELSE blocks
     IN /\ blocks' = bs1
        /\ fnBlocks' = Append(fnBlocks, f.b3)
        /\ cursor' = f.b3
        /\ stack' = PopSeq(stack)
  /\ UNCHANGED <<lexer, inp, out, gen, pc, scopes, nslots, ret, fuel, loops, lexical, depth0,
                 inModule, retType>>

\* FunctionAST::codegen from the return of body->codegen to verifyFunction
MiniFunctionEnd ==
  /\ gen = "mini" /\ pc = "run" /\ stack # <<>>
  /\ Top.k = "fn"
  /\ blocks' = IF ~GetTerminator(blocks, fnBlocks[Len(fnBlocks)])
               THEN Emit(blocks, cursor, Instr("ret", 1, 0)) ELSE blocks
  /\ scopes' = popScope(scopes)
  /\ lexical' = <<>>
  /\ stack' = <<>>
  /\ pc' = "verify"
  /\ UNCHANGED <<lexer, inp, out, gen, fnBlocks, cursor, nslots, ret, fuel, loops, depth0,
                 inModule, retType>>

\* FunctionAST::codegen: verifyFunction, and the throw when it fails
MiniVerify ==
  /\ gen = "mini" /\ pc = "verify"
  /\ pc' = IF VerifyFunction(blocks, fnBlocks) THEN "done" ELSE "failed"
  /\ UNCHANGED <<lexer, inp, out, gen, blocks, fnBlocks, cursor, scopes, nslots, stack, ret, fuel,
                 loops, lexical, depth0, inModule, retType>>

NextMini ==
  \/ \E ps \in ParamLists : MiniFunctionBegin(ps)
  \/ MiniBlockBegin
  \/ MiniBlockEnd
  \/ \E e \in Exprs : MiniExprStmt(e)
  \/ \E v \in OptExprs : MiniReturn(v)
  \/ \E n \in Names, i \in OptExprs : MiniVarDecl(n, i)
  \/ \E c \in Exprs, h \in BOOLEAN : MiniIfBegin(c, h)
  \/ MiniIfThenEnd
  \/ MiniIfElseEnd
  \/ \E c \in Exprs : MiniWhileBegin(c)
  \/ MiniWhileEnd
  \/ MiniFunctionEnd
  \/ MiniVerify

InitMini == Init /\ gen = "mini" /\ fuel = MaxStmts /\ retType = "int"

SpecMini == InitMini /\ [][NextMini]_vars


\* ===================================================================
\* cg: CodeGen of src/src/codegen.cpp; namedAllocas is the one map scopes[1]
\* ===================================================================

\* codegenExpr for NumberExpr and VariableExpr: ok is FALSE when it throws
CgExpr(e, ss) ==
  IF e.k = "num" THEN [ok |-> TRUE, code |-> <<>>, const |-> TRUE]
  ELSE IF e.name \notin DOMAIN ss[1]
       THEN [ok |-> FALSE, code |-> <<>>, const |-> FALSE]
       ELSE [ok |-> TRUE, code |-> <<Instr("load", ss[1][e.name], 0)>>, const |-> FALSE]

\* builder->CreateICmpNE(v, 0): folded by the builder for a constant
CgICmpNE(r) == IF r.const THEN <<>> ELSE <<Instr("icmp", 0, 0)>>

\* the loop over f->args() of CodeGen::emitIR
RECURSIVE CgArgs(_, _, _)
CgArgs(ps, st, entry) ==
  IF ps = <<>> THEN st
  ELSE LET a == st.n + 1
           b1 == EmitAtEntryBegin(st.blocks, <<entry>>, Instr("alloca", a, 0))
           b2 == Emit(b1, entry, Instr("store", a, 0))
       IN CgArgs(Tail(ps),
                 [blocks |-> b2, scope |-> Bind(st.scope, Head(ps), a), n |-> a],
                 entry)

CgLists == {"fnlist", "thenlist", "elselist", "wlist"}

\* a position of a statement loop (fup->body, thenStmts, elseStmts, ws.body) at
\* which codegenStmt is called
CgStmtPos ==
  /\ gen = "cg" /\ pc = "run" /\ stack # <<>>
  /\ Top.k \in CgLists
  /\ fuel > 0

\* CodeGen::emitIR: declareFunction and the loop body up to the statements
CgFunctionBegin(params) ==
  /\ gen = "cg" /\ pc = "idle"
  /\ retType = "int"
  /\ LET bs0 == NewBlock(blocks, "entry")
         entry == Len(bs0)
         st == CgArgs(params, [blocks |-> bs0, scope |-> EmptyScope, n |-> nslots], entry)
     IN /\ blocks' = st.blocks
        /\ fnBlocks' = <<entry>>
        /\ cursor' = entry
        /\ scopes' = <<st.scope>>
        /\ nslots' = st.n
        /\ lexical' = <<st.scope>>
        /\ stack' = <<Frame("fnlist", entry, 0, 0, FALSE)>>
  /\ inModule' = TRUE
  /\ pc' = "run"
  /\ UNCHANGED <<lexer, inp, out, gen, ret, fuel, loops, depth0, retType>>

\* CodeGen::codegenStmt, ReturnStmt
CgReturn(v) ==
  /\ CgStmtPos
  /\ LET r == CgExpr(v, scopes) IN
     IF r.ok
     THEN /\ blocks' = Emit(EmitAll(blocks, cursor, r.code), cursor, Instr("ret", 1, 0))
          /\ pc' = pc /\ stack' = stack
     ELSE /\ blocks' = blocks
          /\ pc' = "failed" /\ stack' = <<>>
  /\ fuel' = fuel - 1
  /\ UNCHANGED <<lexer, inp, out, gen, fnBlocks, cursor, scopes, nslots, ret, loops, lexical,
                 depth0, inModule, retType>>

\* CodeGen::codegenStmt, ExprStmt
CgExprStmt(e) ==
  /\ CgStmtPos
  /\ LET r == CgExpr(e, scopes) IN
     /\ blocks' = EmitAll(blocks, cursor, r.code)
     /\ IF r.ok THEN pc' = pc /\ stack' = stack
                ELSE pc' = "failed" /\ stack' = <<>>
  /\ fuel' = fuel - 1
  /\ UNCHANGED <<lexer, inp, out, gen, fnBlocks, cursor, scopes, nslots, ret, loops, lexical,
                 depth0, inModule, retType>>

\* CodeGen::codegenVarDecl
CgVarDecl(name, init) ==
  /\ CgStmtPos
  /\ LET a == nslots + 1
         bs1 == EmitAtEntryBegin(blocks, fnBlocks, Instr("alloca", a, 0))
         ss1 == [scopes EXCEPT ![1] = Bind(@, name, a)]
         r == IF init = NoE THEN [ok |-> TRUE, code |-> <<>>, const |-> TRUE]
                            ELSE CgExpr(init, ss1)
     IN /\ nslots' = a
        /\ scopes' = ss1
        /\ lexical' = BindTop(lexical, name, a)
        /\ IF r.ok
           THEN /\ blocks' = IF init = NoE THEN bs1
                             ELSE Emit(EmitAll(bs1, cursor, r.code), cursor,
                                       Instr("store", a, 0))
                /\ pc' = pc /\ stack' = stack
           ELSE /\ blocks' = bs1
                /\ pc' = "failed" /\ stack' = <<>>
  /\ fuel' = fuel - 1
  /\ UNCHANGED <<lexer, inp, out, gen, fnBlocks, cursor, ret, loops, depth0, inModule, retType>>

\* CodeGen::codegenIf up to the loop over thenStmts
CgIfBegin(cond) ==
  /\ CgStmtPos
  /\ LET r == CgExpr(cond, scopes)
         bs1 == EmitAll(blocks, cursor, r.code \o CgICmpNE(r))
         bs2 == NewBlock(bs1, "then")
         thenBB == Len(bs2)
         bs3 == NewBlock(bs2, "else")
         elseBB == Len(bs3)
         bs4 == NewBlock(bs3, "ifcont")
         mergeBB == Len(bs4)
         bs5 == Emit(bs4, cursor, Instr("condbr", thenBB, elseBB))
     IN IF r.ok
        THEN /\ blocks' = bs5
             /\ fnBlocks' = Append(fnBlocks, thenBB)
             /\ cursor' = thenBB
             /\ stack' = Append(stack, Frame("thenlist", thenBB, elseBB, mergeBB, FALSE))
             /\ lexical' = Append(lexical, EmptyScope)
             /\ pc' = pc
        ELSE /\ pc' = "failed" /\ stack' = <<>>
             /\ UNCHANGED <<blocks, fnBlocks, cursor, lexical>>
  /\ fuel' = fuel - 1
  /\ UNCHANGED <<lexer, inp, out, gen, scopes, nslots, ret, loops, depth0, inModule, retType>>

\* what the loop over elseStmts starts from: the statements left to draw, the
\* block the then arm ended in and whether thenBB had no terminator there
ElseStart(thenBB) ==
  [stmts |-> fuel, thenEnd |-> cursor, thenOpen |-> ~GetTerminator(blocks, thenBB)]

\* CodeGen::codegenIf from the end of thenStmts to the loop over elseStmts
CgIfThenEnd ==
  /\ gen = "cg" /\ pc = "run" /\ stack # <<>>
  /\ Top.k = "thenlist"
  /\ LET f == Top IN
     /\ blocks' = IF ~GetTerminator(blocks, f.b1)
                  THEN Emit(blocks, cursor, Instr("br", f.b3, 0)) ELSE blocks
     /\ fnBlocks' = Append(fnBlocks, f.b2)
     /\ cursor' = f.b2
     /\ stack' = Append(PopSeq(stack), Frame("elselist", f.b1, f.b2, f.b3, ElseStart(f.b1)))
  /\ lexical' = Append(PopSeq(lexical), EmptyScope)
  /\ UNCHANGED <<lexer, inp, out, gen, pc, scopes, nslots, ret, fuel, loops, depth0, inModule, retType>>

\* CodeGen::codegenIf from the end of elseStmts
CgIfElseEnd ==
  /\ gen = "cg" /\ pc = "run" /\ stack # <<>>
  /\ Top.k = "elselist"
  /\ LET f == Top IN
     /\ blocks' = IF ~GetTerminator(blocks, f.b2)
                  THEN Emit(blocks, cursor, Instr("br", f.b3, 0)) ELSE blocks
     /\ fnBlocks' = Append(fnBlocks, f.b3)
     /\ cursor' = f.b3
     /\ stack' = PopSeq(stack)
  /\ lexical' = PopSeq(lexical)
  /\ UNCHANGED <<lexer, inp, out, gen, pc, scopes, nslots, ret, fuel, loops, depth0, inModule, retType>>

\* CodeGen::codegenWhile up to the loop over ws.body
CgWhileBegin(cond) ==
  /\ CgStmtPos
  /\ LET bs1 == NewBlock(blocks, "loop.cond")
         condBB == Len(bs1)
         bs2 == NewBlock(bs1, "loop.body")
         bodyBB == Len(bs2)
         bs3 == NewBlock(bs2, "loop.after")
         afterBB == Len(bs3)
         bs4 == Emit(bs3, cursor, Instr("br", condBB, 0))
         r == CgExpr(cond, scopes)
         bs5 == EmitAll(bs4, condBB, r.code \o CgICmpNE(r))
         bs6 == Emit(bs5, condBB, Instr("condbr", bodyBB, afterBB))
     IN IF r.ok
        THEN /\ blocks' = bs6
             /\ fnBlocks' = fnBlocks \o <<condBB, bodyBB>>
             /\ cursor' = bodyBB
             /\ stack' = Append(stack, Frame("wlist", condBB, bodyBB, afterBB, FALSE))
             /\ lexical' = Append(lexical, EmptyScope)
             /\ pc' = pc
        ELSE /\ blocks' = bs4
             /\ fnBlocks' = Append(fnBlocks, condBB)
             /\ cursor' = condBB
             /\ lexical' = lexical
             /\ pc' = "failed" /\ stack' = <<>>
  /\ fuel' = fuel - 1
  /\ UNCHANGED <<lexer, inp, out, gen, scopes, nslots, ret, loops, depth0, inModule, retType>>

\* CodeGen::codegenWhile from the end of ws.body
CgWhileEnd ==
  /\ gen = "cg" /\ pc = "run" /\ stack # <<>>
  /\ Top.k = "wlist"
  /\ LET f == Top IN
     /\ blocks' = IF ~GetTerminator(blocks, f.b2)
                  THEN Emit(blocks, cursor, Instr("br", f.b1, 0)) ELSE blocks
     /\ fnBlocks' = Append(fnBlocks, f.b3)
     /\ cursor' = f.b3
     /\ stack' = PopSeq(stack)
  /\ lexical' = PopSeq(lexical)
  /\ UNCHANGED <<lexer, inp, out, gen, pc, scopes, nslots, ret, fuel, loops, depth0, inModule, retType>>

\* CodeGen::emitIR from the end of fup->body to verifyFunction
CgFunctionEnd ==
  /\ gen = "cg" /\ pc = "run" /\ stack # <<>>
  /\ Top.k = "fnlist"
  /\ blocks' = IF ~GetTerminator(blocks, Top.b1)
               THEN Emit(blocks, cursor, Instr("ret", 1, 0)) ELSE blocks
  /\ stack' = <<>>
  /\ lexical' = <<>>
  /\ pc' = "verify"
  /\ UNCHANGED <<lexer, inp, out, gen, fnBlocks, cursor, scopes, nslots, ret, fuel, loops, depth0,
                 inModule, retType>>

\* CodeGen::emitIR: verifyFunction, and the throw when it fails
CgVerify ==
  /\ gen = "cg" /\ pc = "verify"
  /\ pc' = IF VerifyFunction(blocks, fnBlocks) THEN "done" ELSE "failed"
  /\ UNCHANGED <<lexer, inp, out, gen, blocks, fnBlocks, cursor, scopes, nslots, stack, ret, fuel,
                 loops, lexical, depth0, inModule, retType>>

NextCg ==
  \/ \E ps \in ParamLists : CgFunctionBegin(ps)
  \/ \E v \in Exprs : CgReturn(v)
  \/ \E e \in Exprs : CgExprStmt(e)
  \/ \E n \in Names, i \in OptExprs : CgVarDecl(n, i)
  \/ \E c \in Exprs : CgIfBegin(c)
  \/ CgIfThenEnd
  \/ CgIfElseEnd
  \/ \E c \in Exprs : CgWhileBegin(c)
  \/ CgWhileEnd
  \/ CgFunctionEnd
  \/ CgVerify

InitCg == Init /\ gen = "cg" /\ fuel = MaxStmts /\ retType = "int"

SpecCg == InitCg /\ [][NextCg]_vars


\* ===================================================================
\* irgen: clike::IRGenerator of src/src/ir_generator.cpp.  Every codegen returns
\* a Value*; `ret` is "null" for nullptr and "val" otherwise.
\* ===================================================================

\* statements that the handlers on the stack still have to lower: a pending
\* statement, and the else arm of an if whose then arm is being lowered
Owed(st) ==
  Cardinality({i \in DOMAIN st : st[i].k = "stmt" \/ (st[i].k = "then" /\ st[i].f)})

\* IRGenerator::getSymbol
getSymbol(ss, name) == Lookup(ss, name)

\* IRGenerator::addSymbol
addSymbol(ss, name, slot) == BindTop(ss, name, slot)

\* IRGenerator::enterScope
enterScope(ss) == Append(ss, EmptyScope)

\* IRGenerator::exitScope
exitScope(ss) == IF Len(ss) > 1 THEN PopSeq(ss) ELSE ss

\* IRGenerator::createEntryBlockAlloca
IrCreateEntryBlockAlloca(bs, fb, slot) ==
  EmitAtEntryBegin(bs, fb, Instr("alloca", slot, 0))

\* IRGenerator::codegen(NumberExpr&), codegen(VariableExpr&): ok is FALSE for nullptr
IrExpr(e, ss) ==
  IF e.k = "num" THEN [ok |-> TRUE, code |-> <<>>, const |-> TRUE]
  ELSE LET a == getSymbol(ss, e.name) IN
       IF a = 0 THEN [ok |-> FALSE, code |-> <<>>, const |-> FALSE]
       ELSE [ok |-> TRUE, code |-> <<Instr("load", a, 0)>>, const |-> FALSE]

\* builder_->CreateFCmpONE(v, 0.0): folded by the builder for a constant
IrFCmpONE(r) == IF r.const THEN <<>> ELSE <<Instr("fcmp", 0, 0)>>

\* the loop over function->args() of IRGenerator::codegen(FunctionDef&)
RECURSIVE IrArgs(_, _, _)
IrArgs(ps, st, entry) ==
  IF ps = <<>> THEN st
  ELSE LET a == st.n + 1
           b1 == IrCreateEntryBlockAlloca(st.blocks, <<entry>>, a)
           b2 == Emit(b1, entry, Instr("store", a, 0))
       IN IrArgs(Tail(ps),
                 [blocks |-> b2, scope |-> Bind(st.scope, Head(ps), a), n |-> a],
                 entry)

\* a position at which statement->codegen(*this) is called with `need` statements
\* of its own still to draw: the next statement of a block, or the statement an
\* if or a while is waiting for
IrStmtPos(need) ==
  /\ gen = "irgen" /\ pc = "run" /\ stack # <<>>
  /\ ret = "none"
  /\ \/ Top.k = "stmt" /\ fuel >= Owed(stack) + need
     \/ Top.k = "list" /\ fuel >= Owed(stack) + 1 + need

\* the stack below the statement that is called
IrBase == IF Top.k = "stmt" THEN PopSeq(stack) ELSE stack

\* IRGenerator::codegen(FunctionDef&) up to the call of func.getBody()->codegen
IrFunctionBegin(params) ==
  /\ gen = "irgen" /\ pc = "idle"
  /\ LET bs0 == NewBlock(blocks, "entry")
         entry == Len(bs0)
         st == IrArgs(params, [blocks |-> bs0, scope |-> EmptyScope, n |-> nslots], entry)
     IN /\ blocks' = st.blocks
        /\ fnBlocks' = <<entry>>
        /\ cursor' = entry
        /\ scopes' = Append(scopes, st.scope)
        /\ nslots' = st.n
        /\ lexical' = <<st.scope>>
        /\ stack' = <<Frame("fn", entry, 0, 0, FALSE), Frame("blk", 0, 0, 0, FALSE)>>
  /\ inModule' = TRUE
  /\ pc' = "run"
  /\ UNCHANGED <<lexer, inp, out, gen, ret, fuel, loops, depth0, retType>>

\* IRGenerator::codegen(BlockStmt&): enterScope
IrBlockBegin ==
  /\ gen = "irgen" /\ pc = "run" /\ stack # <<>>
  /\ \/ /\ Top.k = "blk"
        /\ stack' = Append(PopSeq(stack), Frame("list", 0, 0, 0, FALSE))
     \/ /\ IrStmtPos(0)
        /\ stack' = Append(IrBase, Frame("list", 0, 0, 0, FALSE))
  /\ fuel' = IF Top.k = "blk" THEN fuel ELSE fuel - 1
  /\ scopes' = enterScope(scopes)
  /\ lexical' = Append(lexical, EmptyScope)
  /\ UNCHANGED <<lexer, inp, out, gen, pc, blocks, fnBlocks, cursor, nslots, ret, loops, depth0,
                 inModule, retType>>

\* IRGenerator::codegen(BlockStmt&): a statement has returned; nullptr leaves the
\* block through exitScope
IrBlockNext ==
  /\ gen = "irgen" /\ pc = "run" /\ stack # <<>>
  /\ Top.k = "list" /\ ret # "none"
  /\ IF ret = "null"
     THEN /\ scopes' = exitScope(scopes)
          /\ stack' = PopSeq(stack)
          /\ lexical' = PopSeq(lexical)
          /\ ret' = "null"
     ELSE /\ stack' = [stack EXCEPT ![Len(stack)].f = TRUE]
          /\ ret' = "none"
          /\ UNCHANGED <<scopes, lexical>>
  /\ UNCHANGED <<lexer, inp, out, gen, pc, blocks, fnBlocks, cursor, nslots, fuel, loops, depth0,
                 inModule, retType>>

\* IRGenerator::codegen(BlockStmt&): the loop has ended; exitScope, return lastValue
IrBlockEnd ==
  /\ gen = "irgen" /\ pc = "run" /\ stack # <<>>
  /\ Top.k = "list" /\ ret = "none"
  /\ scopes' = exitScope(scopes)
  /\ lexical' = PopSeq(lexical)
  /\ ret' = IF Top.f THEN "val" ELSE "null"
  /\ stack' = PopSeq(stack)
  /\ UNCHANGED <<lexer, inp, out, gen, pc, blocks, fnBlocks, cursor, nslots, fuel, loops, depth0,
                 inModule, retType>>

\* IRGenerator::codegen(ExprStmt&)
IrExprStmt(e) ==
  /\ IrStmtPos(0)
  /\ LET r == IrExpr(e, scopes) IN
     /\ blocks' = EmitAll(blocks, cursor, r.code)
     /\ ret' = IF r.ok THEN "val" ELSE "null"
  /\ stack' = IrBase
  /\ fuel' = fuel - 1
  /\ UNCHANGED <<lexer, inp, out, gen, pc, fnBlocks, cursor, scopes, nslots, loops, lexical, depth0,
                 inModule, retType>>

\* IRGenerator::codegen(VarDeclStmt&)
IrVarDecl(name, init) ==
  /\ IrStmtPos(0)
  /\ LET a == nslots + 1
         bs1 == IrCreateEntryBlockAlloca(blocks, fnBlocks, a)
         r == IF init = NoE THEN [ok |-> TRUE, code |-> <<>>, const |-> TRUE]
                            ELSE IrExpr(init, scopes)
     IN /\ nslots' = a
        /\ IF r.ok
           THEN /\ blocks' = Emit(EmitAll(bs1, cursor, r.code), cursor, Instr("store", a, 0))
                /\ scopes' = addSymbol(scopes, name, a)
                /\ lexical' = BindTop(lexical, name, a)
                /\ ret' = "val"
           ELSE /\ blocks' = bs1
                /\ UNCHANGED <<scopes, lexical>>
                /\ ret' = "null"
  /\ stack' = IrBase
  /\ fuel' = fuel - 1
  /\ UNCHANGED <<lexer, inp, out, gen, pc, fnBlocks, cursor, loops, depth0, inModule, retType>>

\* IRGenerator::codegen(ReturnStmt&)
IrReturn(v) ==
  /\ IrStmtPos(0)
  /\ LET r == IF v = NoE THEN [ok |-> TRUE, code |-> <<>>, const |-> TRUE]
                         ELSE IrExpr(v, scopes) IN
     IF r.ok
     THEN /\ blocks' = Emit(EmitAll(blocks, cursor, r.code), cursor,
                            Instr("ret", IF v = NoE THEN 0 ELSE 1, 0))
          /\ ret' = "val"
     ELSE /\ blocks' = blocks
          /\ ret' = "null"
  /\ stack' = IrBase
  /\ fuel' = fuel - 1
  /\ UNCHANGED <<lexer, inp, out, gen, pc, fnBlocks, cursor, scopes, nslots, loops, lexical, depth0,
                 inModule, retType>>

\* IRGenerator::codegen(IfStmt&) up to the call of getThenStmt()->codegen
IrIfBegin(cond, hasElse) ==
  /\ IrStmtPos(IF hasElse THEN 2 ELSE 1)
  /\ LET r == IrExpr(cond, scopes)
         bs1 == EmitAll(blocks, cursor, r.code \o IrFCmpONE(r))
         bs2 == NewBlock(bs1, "then")
         thenBB == Len(bs2)
         bs3 == NewBlock(bs2, "else")
         elseBB == Len(bs3)
         bs4 == NewBlock(bs3, "ifcont")
         mergeBB == Len(bs4)
         bs5 == Emit(bs4, cursor, Instr("condbr", thenBB, elseBB))
     IN IF r.ok
        THEN /\ blocks' = bs5
             /\ fnBlocks' = Append(fnBlocks, thenBB)
             /\ cursor' = thenBB
             /\ stack' = IrBase \o <<Frame("then", thenBB, elseBB, mergeBB, hasElse),
                                     Frame("stmt", 0, 0, 0, FALSE)>>
             /\ lexical' = Append(lexical, EmptyScope)
             /\ ret' = "none"
        ELSE /\ blocks' = EmitAll(blocks, cursor, r.code)
             /\ stack' = IrBase
             /\ ret' = "null"
             /\ UNCHANGED <<fnBlocks, cursor, lexical>>
  /\ fuel' = fuel - 1
  /\ UNCHANGED <<lexer, inp, out, gen, pc, scopes, nslots, loops, depth0, inModule, retType>>

\* IRGenerator::codegen(IfStmt&) from the return of the then statement
IrIfThenEnd ==
  /\ gen = "irgen" /\ pc = "run" /\ stack # <<>>
  /\ Top.k = "then" /\ ret # "none"
  /\ LET f == Top
         bs1 == Emit(blocks, cursor, Instr("br", f.b3, 0))
         bs2 == Emit(bs1, f.b2, Instr("br", f.b3, 0))
     IN IF ret = "null"
        THEN /\ stack' = PopSeq(stack)
             /\ lexical' = PopSeq(lexical)
             /\ ret' = "null"
             /\ UNCHANGED <<blocks, fnBlocks, cursor>>
        ELSE IF f.f
        THEN /\ blocks' = bs1
             /\ fnBlocks' = Append(fnBlocks, f.b2)
             /\ cursor' = f.b2
             /\ stack' = PopSeq(stack) \o <<Frame("else", f.b1, f.b2, f.b3, TRUE),
                                            Frame("stmt", 0, 0, 0, FALSE)>>
             /\ lexical' = Append(PopSeq(lexical), EmptyScope)
             /\ ret' = "none"
        ELSE /\ blocks' = bs2
             /\ fnBlocks' = fnBlocks \o <<f.b2, f.b3>>
             /\ cursor' = f.b3
             /\ stack' = PopSeq(stack)
             /\ lexical' = PopSeq(lexical)
             /\ ret' = "val"
  /\ UNCHANGED <<lexer, inp, out, gen, pc, scopes, nslots, fuel, loops, depth0, inModule, retType>>

\* IRGenerator::codegen(IfStmt&) from the return of the else statement
IrIfElseEnd ==
  /\ gen = "irgen" /\ pc = "run" /\ stack # <<>>
  /\ Top.k = "else" /\ ret # "none"
  /\ LET f == Top IN
     IF ret = "null"
     THEN /\ ret' = "null"
          /\ UNCHANGED <<blocks, fnBlocks, cursor>>
     ELSE /\ blocks' = Emit(blocks, cursor, Instr("br", f.b3, 0))
          /\ fnBlocks' = Append(fnBlocks, f.b3)
          /\ cursor' = f.b3
          /\ ret' = "val"
  /\ stack' = PopSeq(stack)
  /\ lexical' = PopSeq(lexical)
  /\ UNCHANGED <<lexer, inp, out, gen, pc, scopes, nslots, fuel, loops, depth0, inModule, retType>>

\* IRGenerator::codegen(WhileStmt&) up to the call of getBody()->codegen
IrWhileBegin(cond) ==
  /\ IrStmtPos(1)
  /\ LET bs1 == NewBlock(blocks, "loop")
         loopBB == Len(bs1)
         bs2 == NewBlock(bs1, "loopbody")
         bodyBB == Len(bs2)
         bs3 == NewBlock(bs2, "afterloop")
         afterBB == Len(bs3)
         bs4 == Emit(bs3, cursor, Instr("br", loopBB, 0))
         r == IrExpr(cond, scopes)
         bs5 == EmitAll(bs4, loopBB, r.code \o IrFCmpONE(r))
         bs6 == Emit(bs5, loopBB, Instr("condbr", bodyBB, afterBB))
     IN IF r.ok
        THEN /\ blocks' = bs6
             /\ fnBlocks' = fnBlocks \o <<loopBB, bodyBB>>
             /\ cursor' = bodyBB
             /\ stack' = IrBase \o <<Frame("wbody", loopBB, bodyBB, afterBB, FALSE),
                                     Frame("stmt", 0, 0, 0, FALSE)>>
             /\ lexical' = Append(lexical, EmptyScope)
             /\ ret' = "none"
        ELSE /\ blocks' = bs4
             /\ fnBlocks' = Append(fnBlocks, loopBB)
             /\ cursor' = loopBB
             /\ stack' = IrBase
             /\ lexical' = lexical
             /\ ret' = "null"
  /\ fuel' = fuel - 1
  /\ UNCHANGED <<lexer, inp, out, gen, pc, scopes, nslots, loops, depth0, inModule, retType>>

\* IRGenerator::codegen(WhileStmt&) from the return of the body
IrWhileEnd ==
  /\ gen = "irgen" /\ pc = "run" /\ stack # <<>>
  /\ Top.k = "wbody" /\ ret # "none"
  /\ LET f == Top IN
     IF ret = "null"
     THEN /\ ret' = "null"
          /\ UNCHANGED <<blocks, fnBlocks, cursor>>
     ELSE /\ blocks' = Emit(blocks, cursor, Instr("br", f.b1, 0))
          /\ fnBlocks' = Append(fnBlocks, f.b3)
          /\ cursor' = f.b3
          /\ ret' = "val"
  /\ stack' = PopSeq(stack)
  /\ lexical' = PopSeq(lexical)
  /\ UNCHANGED <<lexer, inp, out, gen, pc, scopes, nslots, fuel, loops, depth0, inModule, retType>>

\* IRGenerator::codegen(FunctionDef&) from the return of the body to verifyFunction
IrFunctionEnd ==
  /\ gen = "irgen" /\ pc = "run" /\ stack # <<>>
  /\ Top.k = "fn" /\ ret # "none"
  /\ IF ret = "null"
     THEN /\ inModule' = FALSE
          /\ pc' = "failed"
          /\ blocks' = blocks
     ELSE /\ inModule' = inModule
          /\ pc' = "verify"
          /\ blocks' = IF ~GetTerminator(blocks, cursor)
                       THEN Emit(blocks, cursor, Instr("ret", 1, 0)) ELSE blocks
  /\ scopes' = exitScope(scopes)
  /\ lexical' = <<>>
  /\ stack' = <<>>
  /\ UNCHANGED <<lexer, inp, out, gen, fnBlocks, cursor, nslots, ret, fuel, loops, depth0, retType>>

\* IRGenerator::codegen(FunctionDef&): verifyFunction, eraseFromParent when it fails
IrVerify ==
  /\ gen = "irgen" /\ pc = "verify"
  /\ IF VerifyFunction(blocks, fnBlocks)
     THEN pc' = "done" /\ inModule' = inModule
     ELSE pc' = "failed" /\ inModule' = FALSE
  /\ UNCHANGED <<lexer, inp, out, gen, blocks, fnBlocks, cursor, scopes, nslots, stack, ret, fuel,
                 loops, lexical, depth0, retType>>

NextIr ==
  \/ \E ps \in ParamLists : IrFunctionBegin(ps)
  \/ IrBlockBegin
  \/ IrBlockNext
  \/ IrBlockEnd
  \/ \E e \in Exprs : IrExprStmt(e)
  \/ \E n \in Names, i \in OptExprs : IrVarDecl(n, i)
  \/ \E v \in OptExprs : IrReturn(v)
  \/ \E c \in Exprs, h \in BOOLEAN : IrIfBegin(c, h)
  \/ IrIfThenEnd
  \/ IrIfElseEnd
  \/ \E c \in Exprs : IrWhileBegin(c)
  \/ IrWhileEnd
  \/ IrFunctionEnd
  \/ IrVerify

InitIr == Init /\ gen = "irgen" /\ fuel = MaxStmts /\ retType = "double"

SpecIr == InitIr /\ [][NextIr]_vars


\* ===================================================================
\* cgen: CodeGenerator of src/codegen.cpp.  A parameter is bound to the argument
\* itself (a negative slot), a local to its alloca.
\* ===================================================================

\* CodeGenerator::getVariable
getVariable(ss, name) == Lookup(ss, name)

\* CodeGenerator::setVariable
setVariable(ss, name, v) == IF ss # <<>> THEN BindTop(ss, name, v) ELSE ss

\* CodeGenerator::enterScope
CgenEnterScope(ss) == Append(ss, EmptyScope)

\* CodeGenerator::exitScope
CgenExitScope(ss) == IF ss # <<>> THEN PopSeq(ss) ELSE ss

\* codegenIntegerLiteral, codegenIdentifier: ok is FALSE for nullptr; crash when
\* getPointerElementType is asked of the type of an argument, which is no pointer
CgenExpr(e, ss) ==
  IF e.k = "num"
  THEN [ok |-> TRUE, code |-> <<>>, const |-> TRUE, crash |-> FALSE]
  ELSE LET a == getVariable(ss, e.name) IN
       IF a = 0 THEN [ok |-> FALSE, code |-> <<>>, const |-> FALSE, crash |-> FALSE]
       ELSE IF a < 0 THEN [ok |-> FALSE, code |-> <<>>, const |-> FALSE, crash |-> TRUE]
       ELSE [ok |-> TRUE, code |-> <<Instr("load", a, 0)>>, const |-> FALSE,
             crash |-> FALSE]

CgenNoExpr == [ok |-> TRUE, code |-> <<>>, const |-> TRUE, crash |-> FALSE]

\* builder->CreateICmpNE(v, APInt(32, 0)): folded by the builder for a constant
CgenICmpNE(r) == IF r.const THEN <<>> ELSE <<Instr("icmp", 0, 0)>>

\* the loop over function->args() of codegenFunctionDefinition
RECURSIVE CgenArgs(_, _, _)
CgenArgs(ps, scope, idx) ==
  IF ps = <<>> THEN scope
  ELSE CgenArgs(Tail(ps), Bind(scope, Head(ps), 0 - idx), idx + 1)

\* break_stack.push / continue_stack.push
PushLoop(ls, brk, cont) == Append(ls, [brk |-> brk, cont |-> cont])

\* the loop ends and leaves its targets on the stacks
PopLoopKept(ls) == ls

\* break_stack.pop / continue_stack.pop
PopLoop(ls) == PopSeq(ls)

\* a position at which stmt->codegen(*this) is called with `need` statements of
\* its own still to draw
CgenStmtPos(need) ==
  /\ gen = "cgen" /\ pc = "run" /\ stack # <<>>
  /\ \/ Top.k = "stmt" /\ fuel >= Owed(stack) + need
     \/ Top.k = "list" /\ fuel >= Owed(stack) + 1 + need

CgenBase == IF Top.k = "stmt" THEN PopSeq(stack) ELSE stack

\* a null pointer or a non-pointer type is dereferenced: the compiler is gone
CgenCrash ==
  /\ pc' = "crashed"
  /\ stack' = <<>>
  /\ UNCHANGED <<lexer, inp, out, gen, blocks, fnBlocks, cursor, scopes, nslots, ret, loops, lexical,
                 depth0, inModule, retType>>

\* codegenFunctionDefinition up to the call of node->getBody()->codegen
CgenFunctionBegin(params) ==
  /\ gen = "cgen" /\ pc = "idle"
  /\ LET bs0 == NewBlock(blocks, "entry")
         entry == Len(bs0)
     IN /\ blocks' = bs0
        /\ fnBlocks' = <<entry>>
        /\ cursor' = entry
        /\ scopes' = Append(scopes, CgenArgs(params, EmptyScope, 1))
        /\ stack' = <<Frame("fn", entry, 0, 0, FALSE), Frame("blk", 0, 0, 0, FALSE)>>
  /\ inModule' = TRUE
  /\ pc' = "run"
  /\ UNCHANGED <<lexer, inp, out, gen, nslots, ret, fuel, loops, lexical, depth0, retType>>

\* codegenCompoundStatement: enterScope
CgenCompoundBegin ==
  /\ gen = "cgen" /\ pc = "run" /\ stack # <<>>
  /\ \/ /\ Top.k = "blk"
        /\ stack' = Append(PopSeq(stack), Frame("list", 0, 0, 0, FALSE))
     \/ /\ CgenStmtPos(0)
        /\ stack' = Append(CgenBase, Frame("list", 0, 0, 0, FALSE))
  /\ fuel' = IF Top.k = "blk" THEN fuel ELSE fuel - 1
  /\ scopes' = CgenEnterScope(scopes)
  /\ UNCHANGED <<lexer, inp, out, gen, pc, blocks, fnBlocks, cursor, nslots, ret, loops, lexical,
                 depth0, inModule, retType>>

\* codegenCompoundStatement: the loop has ended, exitScope
CgenCompoundEnd ==
  /\ gen = "cgen" /\ pc = "run" /\ stack # <<>>
  /\ Top.k = "list"
  /\ scopes' = CgenExitScope(scopes)
  /\ stack' = PopSeq(stack)
  /\ UNCHANGED <<lexer, inp, out, gen, pc, blocks, fnBlocks, cursor, nslots, ret, fuel, loops,
                 lexical, depth0, inModule, retType>>

\* codegenExpressionStatement
CgenExprStmt(e) ==
  /\ CgenStmtPos(0)
  /\ fuel' = fuel - 1
  /\ LET r == CgenExpr(e, scopes) IN
     IF r.crash THEN CgenCrash
     ELSE /\ blocks' = EmitAll(blocks, cursor, r.code)
          /\ stack' = CgenBase
          /\ UNCHANGED <<lexer, inp, out, gen, pc, fnBlocks, cursor, scopes, nslots, ret, loops,
                         lexical, depth0, inModule, retType>>

\* codegenVariableDeclaration
CgenVarDecl(name, init) ==
  /\ CgenStmtPos(0)
  /\ fuel' = fuel - 1
  /\ LET a == nslots + 1
         bs1 == Emit(blocks, cursor, Instr("alloca", a, 0))
         ss1 == setVariable(scopes, name, a)
         r == IF init = NoE THEN CgenNoExpr ELSE CgenExpr(init, ss1)
     IN /\ nslots' = a
        /\ scopes' = ss1
        /\ blocks' = IF init # NoE /\ r.ok
                     THEN Emit(EmitAll(bs1, cursor, r.code), cursor, Instr("store", a, 0))
                     ELSE bs1
        /\ IF r.crash THEN pc' = "crashed" /\ stack' = <<>>
                      ELSE pc' = pc /\ stack' = CgenBase
  /\ UNCHANGED <<lexer, inp, out, gen, fnBlocks, cursor, ret, loops, lexical, depth0, inModule, retType>>

\* codegenIfStatement up to the call of getThenStatement()->codegen
CgenIfBegin(cond, hasElse) ==
  /\ CgenStmtPos(IF hasElse THEN 2 ELSE 1)
  /\ fuel' = fuel - 1
  /\ LET r == CgenExpr(cond, scopes)
         bs1 == EmitAll(blocks, cursor, r.code \o CgenICmpNE(r))
         bs2 == NewBlock(bs1, "then")
         thenBB == Len(bs2)
         bs3 == NewBlock(bs2, "else")
         elseBB == Len(bs3)
         bs4 == NewBlock(bs3, "ifcont")
         mergeBB == Len(bs4)
         bs5 == Emit(bs4, cursor, Instr("condbr", thenBB, elseBB))
     IN IF r.crash THEN CgenCrash
        ELSE /\ IF r.ok
                THEN /\ blocks' = bs5
                     /\ fnBlocks' = Append(fnBlocks, thenBB)
                     /\ cursor' = thenBB
                     /\ stack' = CgenBase \o <<Frame("then", thenBB, elseBB, mergeBB, hasElse),
                                               Frame("stmt", 0, 0, 0, FALSE)>>
                ELSE /\ stack' = CgenBase
                     /\ UNCHANGED <<blocks, fnBlocks, cursor>>
             /\ UNCHANGED <<lexer, inp, out, gen, pc, scopes, nslots, ret, loops, lexical, depth0,
                            inModule, retType>>

\* codegenIfStatement from the return of the then statement
CgenIfThenEnd ==
  /\ gen = "cgen" /\ pc = "run" /\ stack # <<>>
  /\ Top.k = "then"
  /\ LET f == Top
         bs1 == Emit(blocks, cursor, Instr("br", f.b3, 0))
         bs2 == Emit(bs1, f.b2, Instr("br", f.b3, 0))
     IN IF f.f
        THEN /\ blocks' = bs1
             /\ fnBlocks' = Append(fnBlocks, f.b2)
             /\ cursor' = f.b2
             /\ stack' = PopSeq(stack) \o <<Frame("else", f.b1, f.b2, f.b3, TRUE),
                                            Frame("stmt", 0, 0, 0, FALSE)>>
        ELSE /\ blocks' = bs2
             /\ fnBlocks' = fnBlocks \o <<f.b2, f.b3>>
             /\ cursor' = f.b3
             /\ stack' = PopSeq(stack)
  /\ UNCHANGED <<lexer, inp, out, gen, pc, scopes, nslots, ret, fuel, loops, lexical, depth0,
                 inModule, retType>>

\* codegenIfStatement from the return of the else statement
CgenIfElseEnd ==
  /\ gen = "cgen" /\ pc = "run" /\ stack # <<>>
  /\ Top.k = "else"
  /\ blocks' = Emit(blocks, cursor, Instr("br", Top.b3, 0))
  /\ fnBlocks' = Append(fnBlocks, Top.b3)
  /\ cursor' = Top.b3
  /\ stack' = PopSeq(stack)
  /\ UNCHANGED <<lexer, inp, out, gen, pc, scopes, nslots, ret, fuel, loops, lexical, depth0,
                 inModule, retType>>

\* codegenWhileStatement up to the call of getBody()->codegen
CgenWhileBegin(cond) ==
  /\ CgenStmtPos(1)
  /\ fuel' = fuel - 1
  /\ LET bs1 == NewBlock(blocks, "whilecond")
         condBB == Len(bs1)
         bs2 == NewBlock(bs1, "whilebody")
         bodyBB == Len(bs2)
         bs3 == NewBlock(bs2, "whileafter")
         afterBB == Len(bs3)
         bs4 == Emit(bs3, cursor, Instr("br", condBB, 0))
         r == CgenExpr(cond, scopes)
         bs5 == EmitAll(bs4, condBB, r.code \o CgenICmpNE(r))
         bs6 == Emit(bs5, condBB, Instr("condbr", bodyBB, afterBB))
     IN /\ loops' = PushLoop(loops, afterBB, condBB)
        /\ IF r.ok
           THEN /\ blocks' = bs6
                /\ fnBlocks' = fnBlocks \o <<condBB, bodyBB>>
                /\ cursor' = bodyBB
                /\ stack' = CgenBase \o <<Frame("wbody", condBB, bodyBB, afterBB, FALSE),
                                          Frame("stmt", 0, 0, 0, FALSE)>>
                /\ pc' = pc
           ELSE /\ blocks' = bs4
                /\ fnBlocks' = Append(fnBlocks, condBB)
                /\ cursor' = condBB
                /\ stack' = <<>>
                /\ pc' = "crashed"
  /\ UNCHANGED <<lexer, inp, out, gen, scopes, nslots, ret, lexical, depth0, inModule, retType>>

\* codegenWhileStatement from the return of the body
CgenWhileEnd ==
  /\ gen = "cgen" /\ pc = "run" /\ stack # <<>>
  /\ Top.k = "wbody"
  /\ blocks' = Emit(blocks, cursor, Instr("br", Top.b1, 0))
  /\ fnBlocks' = Append(fnBlocks, Top.b3)
  /\ cursor' = Top.b3
  /\ loops' = PopLoop(loops)
  /\ stack' = PopSeq(stack)
  /\ UNCHANGED <<lexer, inp, out, gen, pc, scopes, nslots, ret, fuel, lexical, depth0, inModule, retType>>

\* codegenForStatement up to the call of getBody()->codegen
CgenForBegin(init, cond) ==
  /\ CgenStmtPos(1)
  /\ fuel' = fuel - 1
  /\ LET bs1 == NewBlock(blocks, "forinit")
         initBB == Len(bs1)
         bs2 == NewBlock(bs1, "forcond")
         condBB == Len(bs2)
         bs3 == NewBlock(bs2, "forbody")
         bodyBB == Len(bs3)
         bs4 == NewBlock(bs3, "forinc")
         incBB == Len(bs4)
         bs5 == NewBlock(bs4, "forafter")
         afterBB == Len(bs5)
         bs6 == Emit(bs5, cursor, Instr("br", initBB, 0))
         ri == IF init = NoE THEN CgenNoExpr ELSE CgenExpr(init, scopes)
         bs7 == Emit(EmitAll(bs6, initBB, ri.code), initBB, Instr("br", condBB, 0))
         rc == IF cond = NoE THEN CgenNoExpr ELSE CgenExpr(cond, scopes)
         bs8 == EmitAll(bs7, condBB, rc.code \o CgenICmpNE(rc))
         bs9 == Emit(bs8, condBB, Instr("condbr", bodyBB, afterBB))
     IN /\ loops' = PushLoop(loops, afterBB, incBB)
        /\ IF ri.crash
           THEN /\ blocks' = bs6
                /\ fnBlocks' = Append(fnBlocks, initBB)
                /\ cursor' = initBB
                /\ stack' = <<>>
                /\ pc' = "crashed"
           ELSE IF ~rc.ok
           THEN /\ blocks' = bs7
                /\ fnBlocks' = fnBlocks \o <<initBB, condBB>>
                /\ cursor' = condBB
                /\ stack' = <<>>
                /\ pc' = "crashed"
           ELSE /\ blocks' = bs9
                /\ fnBlocks' = fnBlocks \o <<initBB, condBB, bodyBB>>
                /\ cursor' = bodyBB
                /\ stack' = CgenBase \o <<Frame("fbody", condBB, incBB, afterBB, FALSE),
                                          Frame("stmt", 0, 0, 0, FALSE)>>
                /\ pc' = pc
  /\ UNCHANGED <<lexer, inp, out, gen, scopes, nslots, ret, lexical, depth0, inModule, retType>>

\* codegenForStatement from the return of the body
CgenForEnd(inc) ==
  /\ gen = "cgen" /\ pc = "run" /\ stack # <<>>
  /\ Top.k = "fbody"
  /\ LET f == Top
         bs1 == Emit(blocks, cursor, Instr("br", f.b2, 0))
         r == IF inc = NoE THEN CgenNoExpr ELSE CgenExpr(inc, scopes)
         bs2 == Emit(EmitAll(bs1, f.b2, r.code), f.b2, Instr("br", f.b1, 0))
     IN IF r.crash
        THEN /\ blocks' = bs1
             /\ fnBlocks' = Append(fnBlocks, f.b2)
             /\ cursor' = f.b2
             /\ loops' = loops
             /\ stack' = <<>>
             /\ pc' = "crashed"
        ELSE /\ blocks' = bs2
             /\ fnBlocks' = fnBlocks \o <<f.b2, f.b3>>
             /\ cursor' = f.b3
             /\ loops' = PopLoop(loops)
             /\ stack' = PopSeq(stack)
             /\ pc' = pc
  /\ UNCHANGED <<lexer, inp, out, gen, scopes, nslots, ret, fuel, lexical, depth0, inModule, retType>>

\* codegenReturnStatement
CgenReturn(v) ==
  /\ CgenStmtPos(0)
  /\ fuel' = fuel - 1
  /\ LET r == IF v = NoE THEN CgenNoExpr ELSE CgenExpr(v, scopes)
         bs1 == EmitAll(blocks, cursor, r.code)
     IN IF r.crash \/ (~r.ok /\ retType # "void")
        THEN CgenCrash
        ELSE /\ blocks' = Emit(bs1, cursor,
                               Instr("ret", IF v = NoE \/ retType = "void" THEN 0 ELSE 1, 0))
             /\ stack' = CgenBase
             /\ UNCHANGED <<lexer, inp, out, gen, pc, fnBlocks, cursor, scopes, nslots, ret, loops,
                            lexical, depth0, inModule, retType>>

\* codegenBreakStatement
CgenBreak ==
  /\ CgenStmtPos(0)
  /\ fuel' = fuel - 1
  /\ blocks' = IF loops # <<>>
               THEN Emit(blocks, cursor, Instr("br", loops[Len(loops)].brk, 0))
               ELSE blocks
  /\ stack' = CgenBase
  /\ UNCHANGED <<lexer, inp, out, gen, pc, fnBlocks, cursor, scopes, nslots, ret, loops, lexical,
                 depth0, inModule, retType>>

\* codegenContinueStatement
CgenContinue ==
  /\ CgenStmtPos(0)
  /\ fuel' = fuel - 1
  /\ blocks' = IF loops # <<>>
               THEN Emit(blocks, cursor, Instr("br", loops[Len(loops)].cont, 0))
               ELSE blocks
  /\ stack' = CgenBase
  /\ UNCHANGED <<lexer, inp, out, gen, pc, fnBlocks, cursor, scopes, nslots, ret, loops, lexical,
                 depth0, inModule, retType>>

\* codegenFunctionDefinition from the return of the body
CgenFunctionEnd ==
  /\ gen = "cgen" /\ pc = "run" /\ stack # <<>>
  /\ Top.k = "fn"
  /\ blocks' = IF retType = "void" /\ ~GetTerminator(blocks, cursor)
               THEN Emit(blocks, cursor, Instr("ret", 0, 0)) ELSE blocks
  /\ scopes' = CgenExitScope(scopes)
  /\ stack' = <<>>
  /\ pc' = "done"
  /\ UNCHANGED <<lexer, inp, out, gen, fnBlocks, cursor, nslots, ret, fuel, loops, lexical, depth0,
                 inModule, retType>>

NextCgen ==
  \/ \E ps \in ParamLists : CgenFunctionBegin(ps)
  \/ CgenBreak
  \/ CgenContinue
  \/ CgenCompoundBegin
  \/ CgenCompoundEnd
  \/ \E e \in Exprs : CgenExprStmt(e)
  \/ \E n \in Names, i \in OptExprs : CgenVarDecl(n, i)
  \/ \E c \in Exprs, h \in BOOLEAN : CgenIfBegin(c, h)
  \/ CgenIfThenEnd
  \/ CgenIfElseEnd
  \/ \E c \in Exprs : CgenWhileBegin(c)
  \/ CgenWhileEnd
  \/ \E i \in OptExprs, c \in OptExprs : CgenForBegin(i, c)
  \/ \E i \in OptExprs : CgenForEnd(i)
  \/ \E v \in OptExprs : CgenReturn(v)
  \/ CgenFunctionEnd

InitCgen == Init /\ gen = "cgen" /\ fuel = MaxStmts /\ retType \in {"int", "void"}

SpecCgen == InitCgen /\ [][NextCgen]_vars


\* ===================================================================
\* ast: the codegen methods of the AST nodes of src/ast.cpp.  A method returns
\* a value or nullptr; ret carries it to the caller.
\* ===================================================================

\* cg.getNamedValue
getNamedValue(ss, name) == IF name \in DOMAIN ss[1] THEN ss[1][name] ELSE 0

\* cg.setNamedValue
setNamedValue(ss, name, v) == [ss EXCEPT ![1] = Bind(ss[1], name, v)]

\* cg.pushLoopBlock
pushLoopBlock(ls, bb) == Append(ls, [brk |-> bb, cont |-> 0])

\* cg.popLoopBlock
popLoopBlock(ls) == IF ls # <<>> THEN PopSeq(ls) ELSE ls

\* IntegerLiteral::codegen, VariableExpression::codegen
AstExpr(e, ss) ==
  IF e.k = "num" THEN [ok |-> TRUE, code |-> <<>>, const |-> TRUE]
  ELSE LET a == getNamedValue(ss, e.name) IN
       IF a = 0 THEN [ok |-> FALSE, code |-> <<>>, const |-> FALSE]
       ELSE [ok |-> TRUE, code |-> <<Instr("load", a, 0)>>, const |-> FALSE]

\* builder.CreateICmpNE(v, 0): folded by the builder for a constant
AstICmpNE(r) == IF r.const THEN <<>> ELSE <<Instr("icmp", 0, 0)>>

\* the loop over function->args() of FunctionDefinition::codegen
RECURSIVE AstArgs(_, _, _)
AstArgs(ps, st, entry) ==
  IF ps = <<>> THEN st
  ELSE LET a == st.n + 1
           bs1 == Emit(st.blocks, entry, Instr("alloca", a, 0))
           bs2 == Emit(bs1, entry, Instr("store", a, 0))
       IN AstArgs(Tail(ps), [blocks |-> bs2, scope |-> Bind(st.scope, Head(ps), a),
                             n |-> a], entry)

\* a position at which stmt->codegen(cg) is called with `need` statements of its
\* own still to draw
AstStmtPos(need) ==
  /\ gen = "ast" /\ pc = "run" /\ stack # <<>>
  /\ ret = "none"
  /\ \/ Top.k = "stmt" /\ fuel >= Owed(stack) + need
     \/ Top.k \in {"list", "fn"} /\ fuel >= Owed(stack) + 1 + need

AstBase == IF Top.k = "stmt" THEN PopSeq(stack) ELSE stack

\* FunctionDefinition::codegen up to the loop over *body
AstFunctionBegin(params) ==
  /\ gen = "ast" /\ pc = "idle"
  /\ LET bs0 == NewBlock(blocks, "entry")
         entry == Len(bs0)
         st == AstArgs(params, [blocks |-> bs0, scope |-> scopes[1], n |-> nslots], entry)
     IN /\ blocks' = st.blocks
        /\ fnBlocks' = <<entry>>
        /\ cursor' = entry
        /\ scopes' = <<st.scope>>
        /\ nslots' = st.n
        /\ stack' = <<Frame("fn", entry, 0, 0, FALSE)>>
  /\ inModule' = TRUE
  /\ pc' = "run"
  /\ UNCHANGED <<lexer, inp, out, gen, ret, fuel, loops, lexical, depth0, retType>>

\* last = stmt->codegen(cg) in FunctionDefinition::codegen and BlockStatement::codegen
AstNext ==
  /\ gen = "ast" /\ pc = "run" /\ stack # <<>>
  /\ Top.k \in {"list", "fn"} /\ ret # "none"
  /\ stack' = [stack EXCEPT ![Len(stack)].f = (ret = "val")]
  /\ ret' = "none"
  /\ UNCHANGED <<lexer, inp, out, gen, pc, blocks, fnBlocks, cursor, scopes, nslots, fuel, loops,
                 lexical, depth0, inModule, retType>>

\* BlockStatement::codegen: entered
AstBlockBegin ==
  /\ AstStmtPos(0)
  /\ stack' = Append(AstBase, Frame("list", 0, 0, 0, FALSE))
  /\ fuel' = fuel - 1
  /\ UNCHANGED <<lexer, inp, out, gen, pc, blocks, fnBlocks, cursor, scopes, nslots, ret, loops,
                 lexical, depth0, inModule, retType>>

\* BlockStatement::codegen: return last
AstBlockEnd ==
  /\ gen = "ast" /\ pc = "run" /\ stack # <<>>
  /\ Top.k = "list" /\ ret = "none"
  /\ ret' = IF Top.f THEN "val" ELSE "null"
  /\ stack' = PopSeq(stack)
  /\ UNCHANGED <<lexer, inp, out, gen, pc, blocks, fnBlocks, cursor, scopes, nslots, fuel, loops,
                 lexical, depth0, inModule, retType>>

\* ExpressionStatement::codegen
AstExprStmt(e) ==
  /\ AstStmtPos(0)
  /\ LET r == AstExpr(e, scopes) IN
     /\ blocks' = EmitAll(blocks, cursor, r.code)
     /\ ret' = IF r.ok THEN "val" ELSE "null"
  /\ stack' = AstBase
  /\ fuel' = fuel - 1
  /\ UNCHANGED <<lexer, inp, out, gen, pc, fnBlocks, cursor, scopes, nslots, loops, lexical, depth0,
                 inModule, retType>>

\* VariableDeclaration::codegen
AstVarDecl(name, init) ==
  /\ AstStmtPos(0)
  /\ LET a == nslots + 1
         bs1 == Emit(blocks, cursor, Instr("alloca", a, 0))
         ss1 == setNamedValue(scopes, name, a)
         r == IF init = NoE THEN [ok |-> TRUE, code |-> <<>>, const |-> TRUE]
              ELSE AstExpr(init, ss1)
     IN /\ nslots' = a
        /\ scopes' = ss1
        /\ blocks' = IF init # NoE /\ r.ok
                     THEN Emit(EmitAll(bs1, cursor, r.code), cursor, Instr("store", a, 0))
                     ELSE bs1
        /\ ret' = IF r.ok THEN "val" ELSE "null"
  /\ stack' = AstBase
  /\ fuel' = fuel - 1
  /\ UNCHANGED <<lexer, inp, out, gen, pc, fnBlocks, cursor, loops, lexical, depth0, inModule, retType>>

\* ReturnStatement::codegen
AstReturn(v) ==
  /\ AstStmtPos(0)
  /\ LET r == IF v = NoE THEN [ok |-> TRUE, code |-> <<>>, const |-> TRUE]
              ELSE AstExpr(v, scopes)
     IN /\ blocks' = IF r.ok
                     THEN Emit(EmitAll(blocks, cursor, r.code), cursor,
                               Instr("ret", IF v = NoE THEN 0 ELSE 1, 0))
                     ELSE blocks
        /\ ret' = IF r.ok THEN "val" ELSE "null"
  /\ stack' = AstBase
  /\ fuel' = fuel - 1
  /\ UNCHANGED <<lexer, inp, out, gen, pc, fnBlocks, cursor, scopes, nslots, loops, lexical, depth0,
                 inModule, retType>>

\* WhileStatement::codegen up to the call of body->codegen
AstWhileBegin(cond) ==
  /\ AstStmtPos(1)
  /\ fuel' = fuel - 1
  /\ LET bs1 == NewBlock(blocks, "whilecond")
         condBB == Len(bs1)
         bs2 == NewBlock(bs1, "whilebody")
         bodyBB == Len(bs2)
         bs3 == NewBlock(bs2, "whileend")
         endBB == Len(bs3)
         bs4 == Emit(bs3, cursor, Instr("br", condBB, 0))
         r == AstExpr(cond, scopes)
         bs5 == EmitAll(bs4, condBB, r.code \o AstICmpNE(r))
         bs6 == Emit(bs5, condBB, Instr("condbr", bodyBB, endBB))
     IN /\ fnBlocks' = fnBlocks \o <<condBB, bodyBB, endBB>>
        /\ loops' = pushLoopBlock(loops, endBB)
        /\ IF r.ok
           THEN /\ blocks' = bs6
                /\ cursor' = bodyBB
                /\ stack' = AstBase \o <<Frame("wbody", condBB, bodyBB, endBB, FALSE),
                                         Frame("stmt", 0, 0, 0, FALSE)>>
                /\ ret' = "none"
           ELSE /\ blocks' = bs4
                /\ cursor' = condBB
                /\ stack' = AstBase
                /\ ret' = "null"
  /\ UNCHANGED <<lexer, inp, out, gen, pc, scopes, nslots, lexical, depth0, inModule, retType>>

\* WhileStatement::codegen from the return of the body
AstWhileEnd ==
  /\ gen = "ast" /\ pc = "run" /\ stack # <<>>
  /\ Top.k = "wbody" /\ ret # "none"
  /\ IF ret = "null"
     THEN UNCHANGED <<blocks, cursor, loops, ret>>
     ELSE /\ blocks' = Emit(blocks, cursor, Instr("br", Top.b1, 0))
          /\ loops' = popLoopBlock(loops)
          /\ cursor' = Top.b3
          /\ ret' = "val"
  /\ stack' = PopSeq(stack)
  /\ UNCHANGED <<lexer, inp, out, gen, pc, fnBlocks, scopes, nslots, fuel, lexical, depth0,
                 inModule, retType>>

\* FunctionDefinition::codegen from the end of the loop over *body to the verifier
AstFunctionEnd ==
  /\ gen = "ast" /\ pc = "run" /\ stack # <<>>
  /\ Top.k = "fn" /\ ret = "none"
  /\ blocks' = IF ~Top.f /\ retType # "void"
               THEN Emit(blocks, cursor, Instr("ret", IF retType = "int" THEN 1 ELSE 0, 0))
               ELSE blocks
  /\ stack' = <<>>
  /\ pc' = "verify"
  /\ UNCHANGED <<lexer, inp, out, gen, fnBlocks, cursor, scopes, nslots, ret, fuel, loops, lexical,
                 depth0, inModule, retType>>

\* FunctionDefinition::codegen: verifyFunction, logError on failure
AstVerify ==
  /\ gen = "ast" /\ pc = "verify"
  /\ pc' = IF VerifyFunction(blocks, fnBlocks) THEN "done" ELSE "failed"
  /\ UNCHANGED <<lexer, inp, out, gen, blocks, fnBlocks, cursor, scopes, nslots, stack, ret, fuel,
                 loops, lexical, depth0, inModule, retType>>

NextAst ==
  \/ \E ps \in ParamLists : AstFunctionBegin(ps)
  \/ AstNext
  \/ AstBlockBegin
  \/ AstBlockEnd
  \/ \E e \in Exprs : AstExprStmt(e)
  \/ \E n \in Names, i \in OptExprs : AstVarDecl(n, i)
  \/ \E v \in OptExprs : AstReturn(v)
  \/ \E c \in Exprs : AstWhileBegin(c)
  \/ AstWhileEnd
  \/ AstFunctionEnd
  \/ AstVerify

InitAst == Init /\ gen = "ast" /\ fuel = MaxStmts /\ retType \in {"int", "void"}

SpecAst == InitAst /\ [][NextAst]_vars


\* function bodies of CodeGenerator made of loops, if and compound statements,
\* break and continue, drawn up to MaxLoopStmts statements
NextCgenLoops ==
  \/ CgenFunctionBegin(<<>>)
  \/ CgenCompoundBegin
  \/ CgenCompoundEnd
  \/ \E h \in BOOLEAN : CgenIfBegin(NumE, h)
  \/ CgenIfThenEnd
  \/ CgenIfElseEnd
  \/ CgenWhileBegin(NumE)
  \/ CgenWhileEnd
  \/ CgenForBegin(NoE, NoE)
  \/ CgenForEnd(NoE)
  \/ CgenBreak
  \/ CgenContinue
  \/ CgenFunctionEnd

InitCgenLoops == Init /\ gen = "cgen" /\ fuel = MaxLoopStmts /\ retType = "void"

SpecCgenLoops == InitCgenLoops /\ [][NextCgenLoops]_vars


\* ===================================================================
\* The properties
\* ===================================================================

LastInstr(bs, b) == bs[b].instrs[Len(bs[b].instrs)]

\* block b ends in the instruction i
EndsIn(bs, b, i) == bs[b].instrs # <<>> /\ LastInstr(bs, b) = i

\* the frame of the innermost loop whose body is being lowered, 0 if there is none
EnclosingLoop(st) ==
  LET ls == {i \in DOMAIN st : st[i].k \in {"wbody", "fbody"}}
  IN IF ls = {} THEN 0 ELSE CHOOSE i \in ls : \A j \in ls : j <= i

\* C1: in the mini lowering, when the body of a function has been lowered and
\* the function is about to be verified, every basic block of the function has
\* exactly one terminator and it is the last instruction of the block.
C1_OneTerminatorPerBlock ==
  (gen = "mini" /\ pc = "verify") =>
    \A i \in 1..Len(fnBlocks) : WellFormedBlock(blocks, fnBlocks[i])

\* C2: no lowering step of CodeGen::codegenStmt appends an instruction to a block
\* that already ends in a terminator: in no block is a terminator followed by
\* another instruction.
C2_NothingAfterTerminator ==
  gen = "cg" =>
    \A b \in DOMAIN blocks :
      \A i \in 1..(Len(blocks[b].instrs) - 1) : ~IsTerminator(blocks[b].instrs[i])

\* C3: in mini::IfStmt::codegen and mini::WhileStmt::codegen, when an if arm or
\* a while body has been lowered and the block in which its lowering ended has
\* no terminator, the step that follows emits the fall-through branch from that
\* block: to the continuation block for an arm, to the condition block for a body.
C3_FallThroughFromEndingBlock ==
  [][(/\ gen = "mini" /\ pc = "run" /\ stack # <<>>
      /\ Top.k \in {"then", "else", "wbody"}
      /\ ~GetTerminator(blocks, cursor))
     => EndsIn(blocks', cursor,
               Instr("br", IF Top.k = "wbody" THEN Top.b1 ELSE Top.b3, 0))]_vars

\* C4: every alloca of CodeGenerator::codegenVariableDeclaration is in the entry
\* block of the function, whichever block the cursor is in at the declaration.
C4_AllocasInEntryBlock ==
  gen = "cgen" =>
    \A b \in DOMAIN blocks :
      \A i \in 1..Len(blocks[b].instrs) :
        blocks[b].instrs[i].op = "alloca" => b = fnBlocks[1]

\* C5: when CodeGen::emitIR has lowered a function body, the block at the cursor
\* ends in a return: one is synthesized there if the body left it open.
C5_ReturnSynthesizedAtCursor ==
  (gen = "cg" /\ pc = "verify") =>
    (blocks[cursor].instrs # <<>> /\ LastInstr(blocks, cursor).op = "ret")

\* C6: with the namedAllocas map of CodeGen::codegenVarDecl a name resolves to
\* the slot of its innermost enclosing declaration, and to none if no enclosing
\* declaration exists, also after an if arm or a while body that redeclares it.
C6_LexicalResolution ==
  (gen = "cg" /\ pc = "run") =>
    \A n \in Names :
      (IF n \in DOMAIN scopes[1] THEN scopes[1][n] ELSE 0) = Lookup(lexical, n)

\* C7: when the mini lowering of a function has ended, by success or by a thrown
\* exception, the scope stack is as deep as before the function was entered.
C7_ScopesReleased ==
  (gen = "mini" /\ pc \in {"done", "failed"}) => Len(scopes) = depth0

\* C8: in CodeGenerator a break inside a loop branches to the exit block of the
\* innermost enclosing loop and a continue to its continue block: the condition
\* block of a while, the increment block of a for.
C8_BreakContinueTargets ==
  [][LET i == EnclosingLoop(stack) IN
     /\ (i # 0 /\ CgenBreak) => EndsIn(blocks', cursor, Instr("br", stack[i].b3, 0))
     /\ (i # 0 /\ CgenContinue) =>
          EndsIn(blocks', cursor,
                 Instr("br", IF stack[i].k = "wbody" THEN stack[i].b1 ELSE stack[i].b2, 0))
    ]_vars

\* a break has been lowered in the exit block of an inner loop that has ended,
\* inside the body of an outer loop, and branches to the exit of the outer loop
C8_Witness ==
  /\ gen = "cgen" /\ pc = "run"
  /\ EnclosingLoop(stack) # 0
  /\ blocks[cursor].label \in {"whileafter", "forafter"}
  /\ cursor > stack[EnclosingLoop(stack)].b3
  /\ blocks[cursor].instrs = <<Instr("br", stack[EnclosingLoop(stack)].b3, 0)>>

\* C9: when WhileStatement::codegen and FunctionDefinition::codegen of src/ast.cpp
\* have lowered a function, the loop stack is empty.
C9_LoopStackEmptyAtFunctionEnd ==
  (gen = "ast" /\ pc \in {"verify", "done", "failed"}) => loops = <<>>

\* C10: a break or continue lowered by CodeGenerator while the loop stack is
\* empty is a fatal error: lowering of the function does not go on.
C10_BreakOutsideLoopIsFatal ==
  [][(gen = "cgen" /\ loops = <<>> /\ (CgenBreak \/ CgenContinue))
     => pc' = "failed"]_vars

\* C11: in mini::FunctionAST::codegen the first lowering error aborts the
\* function and erases its partial IR: when lowering stops at an undeclared
\* variable the module holds no function of that name.
C11_FailedFunctionErased ==
  [][(gen = "mini" /\ pc = "run" /\ pc' = "failed") => ~inModule']_vars

\* ===================================================================
\* Single routines: inp is the construct a routine is handed, out what it
\* returned; the lowering state of the sections above stays idle.
\* ===================================================================

RoutineIdle ==
  /\ pc = "idle"
  /\ blocks = <<>>
  /\ fnBlocks = <<>>
  /\ cursor = 0
  /\ scopes = <<EmptyScope>>
  /\ nslots = 0
  /\ stack = <<>>
  /\ ret = "none"
  /\ fuel = MaxStmts
  /\ loops = <<>>
  /\ lexical = <<>>
  /\ depth0 = Len(scopes)
  /\ inModule = FALSE
  /\ retType = "int"
  /\ out = <<>>

\* no Lexer object is part of the routine
RoutineInit == RoutineIdle /\ lexer = <<>>

\* a routine returns: only pc and out change
RoutineReturns(result) ==
  /\ pc' = "done"
  /\ out' = result
  /\ UNCHANGED <<lexer, inp, gen, blocks, fnBlocks, cursor, scopes, nslots, stack,
                 ret, fuel, loops, lexical, depth0, inModule, retType>>

\* ------------------------------------------------------------- calls
\* the largest number of arguments and parameters drawn
MaxArgs == 2

FnNames == {"f", "g"}

\* the functions of the module: name -> number of parameters
Modules == UNION {[d -> 0..MaxArgs] : d \in SUBSET FnNames}

\* what the codegen of each argument yields: a value, or nothing for an
\* argument that names an undeclared variable
ArgLists == UNION {[1..n -> {"val", "null"}] : n \in 0..MaxArgs}

CallInputs == [module : Modules, callee : FnNames, args : ArgLists]

CallResult(res, calls) == [res |-> res, calls |-> calls]

\* IRBuilder::CreateCall: with a wrong number of arguments it stops at an
\* assertion in a build of LLVM that has them and creates the call otherwise
CreateCall(arity, n) ==
  IF arity = n THEN {CallResult("value", 1)}
  ELSE {CallResult("crash", 0), CallResult("value", 1)}

\* IRGenerator::codegen(CallExpr&)
IrCodegenCall(c) ==
  IF c.callee \notin DOMAIN c.module THEN {CallResult("null", 0)}
  ELSE IF c.module[c.callee] # Len(c.args) THEN {CallResult("null", 0)}
  ELSE IF \E i \in DOMAIN c.args : c.args[i] = "null" THEN {CallResult("null", 0)}
  ELSE CreateCall(c.module[c.callee], Len(c.args))

\* CodeGen::codegenCall
CgCodegenCall(c) ==
  IF c.callee \notin DOMAIN c.module THEN {CallResult("throw", 0)}
  ELSE IF \E i \in DOMAIN c.args : c.args[i] = "null" THEN {CallResult("throw", 0)}
  ELSE CreateCall(c.module[c.callee], Len(c.args))

\* CodeGenerator::codegenFunctionCall
CgenCodegenFunctionCall(c) ==
  IF c.callee \notin DOMAIN c.module THEN {CallResult("null", 0)}
  ELSE IF \E i \in DOMAIN c.args : c.args[i] = "null" THEN {CallResult("null", 0)}
  ELSE CreateCall(c.module[c.callee], Len(c.args))

IrCall ==
  /\ gen = "irgen" /\ pc = "idle"
  /\ \E r \in IrCodegenCall(inp) : RoutineReturns(r)

CgCall ==
  /\ gen = "cg" /\ pc = "idle"
  /\ \E r \in CgCodegenCall(inp) : RoutineReturns(r)

CgenCall ==
  /\ gen = "cgen" /\ pc = "idle"
  /\ \E r \in CgenCodegenFunctionCall(inp) : RoutineReturns(r)

NextCalls == IrCall \/ CgCall \/ CgenCall

InitCalls == RoutineInit /\ gen \in {"irgen", "cg", "cgen"} /\ inp \in CallInputs

SpecCalls == InitCalls /\ [][NextCalls]_vars

\* C12: a call whose callee is no function of the module, or whose number of
\* arguments differs from the callee's number of parameters, is a fatal error
\* and no call instruction is emitted.
C12_BadCallIsFatal ==
  (pc = "done" /\ (\/ inp.callee \notin DOMAIN inp.module
                   \/ inp.module[inp.callee] # Len(inp.args)))
    => (out.res \in {"null", "throw", "crash"} /\ out.calls = 0)

\* ------------------------------------------------------------- assignments
AsgNames == {"x", "y"}

\* the declared variables: name -> slot
AsgEnvs == UNION {[d -> 1..2] : d \in SUBSET AsgNames}

ANum == [k |-> "num", name |-> "", rhs |-> <<>>]
AVar(n) == [k |-> "var", name |-> n, rhs |-> <<>>]
AAssign(n, e) == [k |-> "assign", name |-> n, rhs |-> <<e>>]

AsgLeaves == {ANum} \cup {AVar(n) : n \in AsgNames}

\* the right sides: a literal, a variable, or an assignment of one of these
AsgRights == AsgLeaves \cup {AAssign(n, e) : n \in AsgNames, e \in AsgLeaves}

AsgInputs == [env : AsgEnvs, e : {AAssign(n, e) : n \in AsgNames, e \in AsgRights}]

\* the result of an expression: res, the instructions emitted, and the value
\* yielded (0: a constant, i: the result of instruction i)
ExprResult(res, code, val) == [res |-> res, code |-> code, val |-> val]

\* IRGenerator::codegen(NumberExpr&), codegen(VariableExpr&), and
\* codegen(BinaryExpr&) with createBinaryOperation for the '=' that
\* Parser::parseAssignment builds; n instructions precede
RECURSIVE IrCodegenExpr(_, _, _)
IrCodegenExpr(e, env, n) ==
  IF e.k = "num" THEN ExprResult("value", <<>>, 0)
  ELSE IF e.k = "var"
  THEN IF e.name \in DOMAIN env
       THEN ExprResult("value", <<Instr("load", env[e.name], 0)>>, n + 1)
       ELSE ExprResult("null", <<>>, 0)
  ELSE LET l == IrCodegenExpr(AVar(e.name), env, n)
           r == IrCodegenExpr(e.rhs[1], env, n + Len(l.code))
           both == l.code \o r.code
       IN IF l.res = "null" \/ r.res = "null" THEN ExprResult("null", both, 0)
          ELSE ExprResult("value", Append(both, Instr("fcmp", l.val, r.val)),
                          n + Len(both) + 1)

\* CodeGen::codegenExpr for NumberExpr and VariableExpr, CodeGen::codegenAssign
RECURSIVE CgCodegenExpr(_, _, _)
CgCodegenExpr(e, env, n) ==
  IF e.k = "num" THEN ExprResult("value", <<>>, 0)
  ELSE IF e.k = "var"
  THEN IF e.name \in DOMAIN env
       THEN ExprResult("value", <<Instr("load", env[e.name], 0)>>, n + 1)
       ELSE ExprResult("throw", <<>>, 0)
  ELSE IF e.name \notin DOMAIN env THEN ExprResult("throw", <<>>, 0)
  ELSE LET r == CgCodegenExpr(e.rhs[1], env, n) IN
       IF r.res = "throw" THEN r
       ELSE ExprResult("value", Append(r.code, Instr("store", env[e.name], r.val)),
                       r.val)

IrAssign ==
  /\ gen = "irgen" /\ pc = "idle"
  /\ RoutineReturns(IrCodegenExpr(inp.e, inp.env, 0))

CgAssign ==
  /\ gen = "cg" /\ pc = "idle"
  /\ RoutineReturns(CgCodegenExpr(inp.e, inp.env, 0))

NextAssign == IrAssign \/ CgAssign

InitAssign == RoutineInit /\ gen \in {"irgen", "cg"} /\ inp \in AsgInputs

SpecAssign == InitAssign /\ [][NextAssign]_vars

\* every variable of the expression is declared
RECURSIVE AsgDeclared(_, _)
AsgDeclared(e, env) ==
  IF e.k = "num" THEN TRUE
  ELSE IF e.k = "var" THEN e.name \in DOMAIN env
  ELSE e.name \in DOMAIN env /\ AsgDeclared(e.rhs[1], env)

\* C13: lowering `name = v` with every variable declared yields a value, the
\* last instruction emitted is the store of that value into the slot bound to
\* name, and the value yielded is the stored one.
C13_AssignmentStores ==
  (pc = "done" /\ AsgDeclared(inp.e, inp.env)) =>
    /\ out.res = "value"
    /\ out.code # <<>>
    /\ out.code[Len(out.code)] = Instr("store", inp.env[inp.e.name], out.val)

\* ------------------------------------------------------ binary expressions
CmpOps == {"==", "!=", "<", "<=", ">", ">="}
ArithOps == {"+", "-", "*", "/"}
BinOps == ArithOps \cup CmpOps \cup {"%", "&&", "||"}

\* mini::BinaryOp
MiniBinOps == ArithOps \cup CmpOps

\* an evaluated operand: a constant or an instruction's result, and its type
Operands == [const : BOOLEAN, ty : {"i32", "float"}]

BinInputs == [op : BinOps, l : Operands, r : Operands]

BinResult(res, ty, code) == [res |-> res, ty |-> ty, code |-> code]

\* the IRBuilder folds an operation on two constants and emits nothing
Folded(l, r, code) == IF l.const /\ r.const THEN <<>> ELSE code

\* CodeGen::codegenBinary: every operand is an i32
CgCodegenBinary(b) ==
  IF b.op \in ArithOps \cup {"%"} THEN BinResult("value", "i32", Folded(b.l, b.r, <<b.op>>))
  ELSE IF b.op \in CmpOps
  THEN BinResult("value", "i32", Folded(b.l, b.r, <<"icmp", "zext">>))
  ELSE BinResult("value", "i32",
                 (IF b.l.const THEN <<>> ELSE <<"icmp">>) \o
                 (IF b.r.const THEN <<>> ELSE <<"icmp">>) \o
                 Folded(b.l, b.r, <<b.op, "zext">>))

\* emitComparison
emitComparison(b) == BinResult("value", "i32", Folded(b.l, b.r, <<"icmp", "zext">>))

\* mini::BinaryExpr::codegen: operands are i32 after ensureI32
MiniBinaryCodegen(b) ==
  IF b.op \in ArithOps THEN BinResult("value", "i32", Folded(b.l, b.r, <<b.op>>))
  ELSE emitComparison(b)

\* an instruction built on operands of two types: the builder's assertion
\* stops the compiler, or the instruction is emitted as built
Built(b, ty, code) ==
  IF b.l.ty = b.r.ty THEN {BinResult("value", ty, code)}
  ELSE {BinResult("crash", "", <<>>), BinResult("value", ty, code)}

\* CodeGenerator::codegenBinaryExpression
CgenCodegenBinaryExpression(b) ==
  LET fp == b.l.ty = "float" \/ b.r.ty = "float" IN
  IF b.op \in ArithOps
  THEN Built(b, b.l.ty, Folded(b.l, b.r, <<IF fp THEN "f" \o b.op ELSE b.op>>))
  ELSE IF b.op \in CmpOps
  THEN Built(b, "i1", Folded(b.l, b.r, <<IF fp THEN "fcmp" ELSE "icmp">>))
  ELSE Built(b, b.l.ty, Folded(b.l, b.r, <<b.op>>))

CgBinary ==
  /\ gen = "cg" /\ pc = "idle"
  /\ RoutineReturns(CgCodegenBinary(inp))

MiniBinary ==
  /\ gen = "mini" /\ pc = "idle"
  /\ RoutineReturns(MiniBinaryCodegen(inp))

CgenBinary ==
  /\ gen = "cgen" /\ pc = "idle"
  /\ \E r \in CgenCodegenBinaryExpression(inp) : RoutineReturns(r)

NextBinary == CgBinary \/ MiniBinary \/ CgenBinary

InitBinary ==
  /\ RoutineInit /\ gen \in {"cg", "mini", "cgen"} /\ inp \in BinInputs
  /\ gen # "cgen" => (inp.l.ty = "i32" /\ inp.r.ty = "i32")
  /\ gen = "mini" => inp.op \in MiniBinOps

SpecBinary == InitBinary /\ [][NextBinary]_vars

\* C14: a lowered comparison yields an i32, and one that is not folded ends
\* in the zero-extension of the i1 result.
C14_ComparisonYieldsI32 ==
  (pc = "done" /\ inp.op \in CmpOps /\ out.res = "value") =>
    /\ out.ty = "i32"
    /\ out.code # <<>> => out.code[Len(out.code)] = "zext"

\* ------------------------------------------------------------ type mapping
\* the type keywords of the lexer, and a name that is not one
TypeNames == {"int", "float", "char", "void", "double", "bool", "long"}

\* a function's return type and the types of its parameters
Signatures == [ret : TypeNames,
               params : UNION {[1..n -> TypeNames] : n \in 0..MaxArgs}]

\* CodeGenerator::getLLVMType
getLLVMType(type_name) ==
  IF type_name = "int" THEN "i32"
  ELSE IF type_name = "float" THEN "f32"
  ELSE IF type_name = "char" THEN "i8"
  ELSE IF type_name = "void" THEN "void"
  ELSE "i32"

\* TypeNode::getLLVMType
TypeNodeGetLLVMType(type_name) ==
  IF type_name = "int" THEN "i32"
  ELSE IF type_name = "float" THEN "f32"
  ELSE IF type_name = "char" THEN "i8"
  ELSE IF type_name = "void" THEN "void"
  ELSE "i32"

\* the mapping through CodeGenerator::getLLVMType
GetLLVMType ==
  /\ gen = "cgen" /\ pc = "idle"
  /\ RoutineReturns([by |-> "CodeGenerator", ret |-> getLLVMType(inp.ret),
                     params |-> [i \in DOMAIN inp.params |->
                                   getLLVMType(inp.params[i])]])

\* CodeGenerator::codegenFunctionDefinition: the mapping of the return type
\* and of each parameter type through TypeNode::getLLVMType
TypeNodeMap ==
  /\ gen = "cgen" /\ pc = "idle"
  /\ RoutineReturns([by |-> "TypeNode", ret |-> TypeNodeGetLLVMType(inp.ret),
                     params |-> [i \in DOMAIN inp.params |->
                                   TypeNodeGetLLVMType(inp.params[i])]])

NextTypes == GetLLVMType \/ TypeNodeMap

InitTypes == RoutineInit /\ gen = "cgen" /\ inp \in Signatures

SpecTypes == InitTypes /\ [][NextTypes]_vars

\* the mapping of a type name that the claim states
ClaimedType(type_name, ty) ==
  /\ type_name = "int" => ty = "i32"
  /\ type_name = "bool" => ty = "i1"
  /\ type_name = "char" => ty = "i8"
  /\ type_name = "float" => ty = "f32"
  /\ type_name = "double" => ty = "f64"
  /\ type_name = "void" => ty = "void"
  /\ type_name \notin {"int", "bool", "char", "float", "double", "void"} => ty = "fatal"

\* C15: int, bool, char, float, double and void map to i32, i1, i8, f32, f64
\* and void, and every other type name is a fatal error.
C15_TypeMapping ==
  pc = "done" =>
    /\ ClaimedType(inp.ret, out.ret)
    /\ \A i \in DOMAIN inp.params : ClaimedType(inp.params[i], out.params[i])

\* --------------------------------------------------------------- returns
\* C16: lowering `return expr;` in a void function stops the lowering with
\* an error, and a return lowered in a non-void function emits a return that
\* carries a value.
C16_ReturnMatchesFunctionType ==
  [][\A v \in OptExprs :
       CgenReturn(v) =>
         /\ (retType = "void" /\ v # NoE) => pc' \in {"failed", "crashed"}
         /\ (retType # "void" /\ pc' = "run") => EndsIn(blocks', cursor, Instr("ret", 1, 0))]_vars

\* ------------------------------------------------------ translation units
MaxDecls == 2

\* ExternDecl and Function: a name and a number of parameters
Decls == [name : FnNames, params : 0..MaxArgs]

DeclLists == UNION {[1..n -> Decls] : n \in 0..MaxDecls}

\* TranslationUnit
TranslationUnits == [externs : DeclLists, functions : DeclLists]

\* llvm::Function::Create in a module: a name already taken in the module
\* is made unique with a suffix; `bodies` counts the entry blocks given to it
FunctionCreate(mod, d, kind) ==
  Append(mod, [name |-> d.name,
               suffix |-> Cardinality({i \in DOMAIN mod : mod[i].name = d.name}),
               kind |-> kind, params |-> d.params, bodies |-> 0])

\* CodeGen::declareExtern
declareExtern(mod, d) == FunctionCreate(mod, d, "extern")

\* CodeGen::declareFunction
declareFunction(mod, d) == FunctionCreate(mod, d, "function")

\* Module::getFunction: the function that holds the name unsuffixed, or 0
ModuleGetFunction(mod, name) ==
  IF \E i \in DOMAIN mod : mod[i].name = name /\ mod[i].suffix = 0
  THEN CHOOSE i \in DOMAIN mod : mod[i].name = name /\ mod[i].suffix = 0
  ELSE 0

\* the two declaration loops of CodeGen::emitIR
RECURSIVE DeclareAll(_, _, _)
DeclareAll(mod, ds, kind) ==
  IF ds = <<>> THEN mod
  ELSE DeclareAll(IF kind = "extern" THEN declareExtern(mod, Head(ds))
                                      ELSE declareFunction(mod, Head(ds)),
                  Tail(ds), kind)

\* the loop over tu.functions of CodeGen::emitIR, for bodies without statements
RECURSIVE EmitBodies(_, _)
EmitBodies(mod, fs) ==
  IF fs = <<>> THEN [res |-> "ok", module |-> mod]
  ELSE LET f == ModuleGetFunction(mod, Head(fs).name) IN
       IF f = 0 THEN [res |-> "throw", module |-> mod]
       ELSE EmitBodies([mod EXCEPT ![f].bodies = @ + 1], Tail(fs))

\* CodeGen::emitIR
emitIR(tu) ==
  EmitBodies(DeclareAll(DeclareAll(<<>>, tu.externs, "extern"),
                        tu.functions, "function"),
             tu.functions)

CgEmitIR ==
  /\ gen = "cg" /\ pc = "idle"
  /\ RoutineReturns(emitIR(inp))

NextUnits == CgEmitIR

InitUnits == RoutineInit /\ gen = "cg" /\ inp \in TranslationUnits

SpecUnits == InitUnits /\ [][NextUnits]_vars

\* C17: a translation unit with an extern declaration and a definition of
\* the same name is rejected with an error.
C17_ExternThenDefinitionRejected ==
  (pc = "done" /\ \E i \in DOMAIN inp.externs, j \in DOMAIN inp.functions :
                     inp.externs[i].name = inp.functions[j].name)
    => out.res = "throw"

\* ------------------------------------------------------------ expressions
MaxOps == 3

\* binary operator tokens, at least one of each level
OpToks == {"*", "+", "-", "<", "==", "="}

\* an expression without parentheses: operand i, operator i, operand i+1, ...
\* where an operand is an identifier or a number
TokenExprs ==
  UNION {[ops : [1..n -> OpToks], operands : [1..(n + 1) -> {"id", "num"}]] :
           n \in 1..MaxOps}

\* the tree of an expression: <<i>> is operand i, <<j, l, r>> is operator j
\* applied to l and r; p is the operator the parser stands on at its return
Parsed(t, p) == [t |-> t, p |-> p]

\* currentToken_ is operator p and one of `toks`
ClikeMatchAny(e, p, toks) == p <= Len(e.ops) /\ e.ops[p] \in toks

\* the operators of parseEquality (1), parseComparison (2), parseAddition (3)
\* and parseMultiplication (4) among OpToks
ClikeLevelOps(l) ==
  IF l = 1 THEN {"=="} ELSE IF l = 2 THEN {"<"}
  ELSE IF l = 3 THEN {"+", "-"} ELSE {"*"}

\* clike::Parser::parseEquality (l = 1), parseComparison (2), parseAddition
\* (3), parseMultiplication (4) and parsePrimary (5) from operand p, and the
\* while loop of the first four
RECURSIVE ClikeParseLevel(_, _, _), ClikeParseLoop(_, _, _)
ClikeParseLevel(l, e, p) ==
  IF l = 5 THEN Parsed(<<p>>, p)
  ELSE ClikeParseLoop(l, e, ClikeParseLevel(l + 1, e, p))

ClikeParseLoop(l, e, left) ==
  IF ClikeMatchAny(e, left.p, ClikeLevelOps(l))
  THEN LET right == ClikeParseLevel(l + 1, e, left.p + 1) IN
       ClikeParseLoop(l, e, Parsed(<<left.p, left.t, right.t>>, right.p))
  ELSE left

\* clike::Parser::parseAssignment
RECURSIVE ClikeParseAssignment(_, _)
ClikeParseAssignment(e, p) ==
  LET left == ClikeParseLevel(1, e, p) IN
  IF ClikeMatchAny(e, left.p, {"="})
  THEN LET right == ClikeParseAssignment(e, left.p + 1) IN
       Parsed(<<left.p, left.t, right.t>>, right.p)
  ELSE left

\* Parser::getTokPrecedence of src/parser.h on operator p
HdrTokPrecedence(e, p) ==
  IF p > Len(e.ops) THEN -1
  ELSE IF e.ops[p] = "=" THEN 2
  ELSE IF e.ops[p] = "==" THEN 10
  ELSE IF e.ops[p] = "<" THEN 20
  ELSE IF e.ops[p] \in {"+", "-"} THEN 30
  ELSE 40

\* Parser::parsePrimary, parseBinOpRHS and parseExpression of src/parser.h
RECURSIVE HdrParsePrimary(_, _), HdrParseBinOpRHS(_, _, _), HdrParseExpression(_, _)
HdrParsePrimary(e, p) ==
  IF e.operands[p] = "id" /\ p <= Len(e.ops) /\ e.ops[p] = "="
  THEN LET expr == HdrParseExpression(e, p + 1) IN
       Parsed(<<p, <<p>>, expr.t>>, expr.p)
  ELSE Parsed(<<p>>, p)

HdrParseBinOpRHS(e, exprPrec, lhs) ==
  LET tokPrec == HdrTokPrecedence(e, lhs.p) IN
  IF tokPrec < exprPrec THEN lhs
  ELSE LET rhs0 == HdrParsePrimary(e, lhs.p + 1)
           rhs == IF tokPrec < HdrTokPrecedence(e, rhs0.p)
                  THEN HdrParseBinOpRHS(e, tokPrec + 1, rhs0)
                  ELSE rhs0
       IN HdrParseBinOpRHS(e, exprPrec, Parsed(<<lhs.p, lhs.t, rhs.t>>, rhs.p))

HdrParseExpression(e, p) == HdrParseBinOpRHS(e, 0, HdrParsePrimary(e, p))

\* Parser::initBinopPrecedence and Parser::getTokPrecedence of src/parser.cpp
BinopPrecedence(e, p) ==
  IF p > Len(e.ops) THEN -1
  ELSE IF e.ops[p] = "<" THEN 10
  ELSE IF e.ops[p] \in {"+", "-"} THEN 20
  ELSE IF e.ops[p] = "*" THEN 40
  ELSE -1

\* Parser::parseBinOpRHS of src/parser.cpp
RECURSIVE parseBinOpRHS(_, _, _)
parseBinOpRHS(e, ExprPrec, LHS) ==
  LET TokPrec == BinopPrecedence(e, LHS.p) IN
  IF TokPrec < ExprPrec THEN LHS
  ELSE LET RHS0 == Parsed(<<LHS.p + 1>>, LHS.p + 1)
           RHS == IF TokPrec < BinopPrecedence(e, RHS0.p)
                  THEN parseBinOpRHS(e, TokPrec + 1, RHS0)
                  ELSE RHS0
       IN parseBinOpRHS(e, ExprPrec, Parsed(<<LHS.p, LHS.t, RHS.t>>, RHS.p))

ClikeParseExpression ==
  /\ gen = "irgen" /\ pc = "idle"
  /\ RoutineReturns(ClikeParseAssignment(inp, 1))

HdrParse ==
  /\ gen = "ast" /\ pc = "idle"
  /\ RoutineReturns(HdrParseExpression(inp, 1))

ExprAstParse ==
  /\ gen = "exprast" /\ pc = "idle"
  /\ RoutineReturns(parseBinOpRHS(inp, 0, Parsed(<<1>>, 1)))

NextExprs == ClikeParseExpression \/ HdrParse \/ ExprAstParse

InitExprs == RoutineInit /\ gen \in {"irgen", "ast", "exprast"} /\ inp \in TokenExprs

SpecExprs == InitExprs /\ [][NextExprs]_vars

\* the level of an operator on the ladder: `=` loosest, then == and !=, then
\* the relational operators, then + and -, then * and /
LadderLevel(op) ==
  IF op = "=" THEN 0 ELSE IF op = "==" THEN 1 ELSE IF op = "<" THEN 2
  ELSE IF op \in {"+", "-"} THEN 3 ELSE 4

\* the tree the ladder gives operands lo..hi: the root is a loosest
\* operator, the leftmost one for `=` and the rightmost one otherwise
RECURSIVE LadderTree(_, _, _)
LadderTree(ops, lo, hi) ==
  IF lo = hi THEN <<lo>>
  ELSE LET js == lo..(hi - 1)
           loosest == {j \in js : \A k \in js : LadderLevel(ops[j]) <= LadderLevel(ops[k])}
           root == CHOOSE j \in loosest :
                     \A k \in loosest : IF ops[j] = "=" THEN j <= k ELSE j >= k
       IN <<root, LadderTree(ops, lo, root), LadderTree(ops, root + 1, hi)>>

\* the operators the parser of `g` has a precedence for
KnownOps(g) == IF g = "exprast" THEN {"*", "+", "-", "<"} ELSE OpToks

\* C18: an expression whose operators the parser knows is parsed to its end,
\* into the tree the precedence ladder and the associativities give.
C18_PrecedenceLadder ==
  (pc = "done" /\ \A j \in DOMAIN inp.ops : inp.ops[j] \in KnownOps(gen)) =>
    /\ out.p = Len(inp.ops) + 1
    /\ out.t = LadderTree(inp.ops, 1, Len(inp.ops) + 1)

\* ------------------------------------------------------ function bodies
MaxToks == 6

\* the tokens of a function body: braces, an identifier, `;`, `return`, and
\* `)` as a token no statement starts with
BodyToks == {"{", "}", "id", ";", "return", ")"}

Bodies == UNION {[1..n -> BodyToks] : n \in 0..MaxToks}

\* the token stream of one function: its header, then the body tokens
Stream(g, body) ==
  (IF g = "ast" THEN <<"int">> ELSE <<>>) \o <<"id", "(", ")">> \o body

\* currentToken_ / curTok at position p; the lexer gives END_OF_FILE at the end
Tok(ts, p) == IF p > Len(ts) THEN "eof" ELSE ts[p]

\* a node of the AST: its kind, the position of its first token (0 for a
\* block), its children
Node(k, at, body) == [k |-> k, at |-> at, body |-> body]

\* the result of a parse routine: a node or nullptr, the position reached,
\* the errors reported so far, and whether the routine never returns
PR(ok, t, p, errs) == [ok |-> ok, t |-> t, p |-> p, errs |-> errs, hang |-> FALSE]

Null(p, errs) == PR(FALSE, <<>>, p, errs)

Hang(p, errs) == [ok |-> FALSE, t |-> <<>>, p |-> p, errs |-> errs, hang |-> TRUE]

\* clike::Parser::expect: a token other than the expected one is reported
\* and left in place
ClikeExpect(ts, s, expected) ==
  IF Tok(ts, s.p) # expected THEN [s EXCEPT !.errs = @ + 1]
  ELSE [s EXCEPT !.p = @ + 1]

\* clike::Parser::parseExpression down to parsePrimary, for a stream without
\* operators, numbers and parentheses
ClikeParsePrimary(ts, s) ==
  IF Tok(ts, s.p) = "id" THEN PR(TRUE, Node("var", s.p, <<>>), s.p + 1, s.errs)
  ELSE Null(s.p, s.errs + 1)

\* clike::Parser::parseReturnStatement
ClikeParseReturnStatement(ts, s) ==
  LET s1 == ClikeExpect(ts, s, "return") IN
  IF Tok(ts, s1.p) \notin {";", "}"}
  THEN LET expr == ClikeParsePrimary(ts, s1) IN
       IF ~expr.ok THEN expr
       ELSE PR(TRUE, Node("return", s.p, <<expr.t>>), expr.p, expr.errs)
  ELSE PR(TRUE, Node("return", s.p, <<>>), s1.p, s1.errs)

\* clike::Parser::parseStatement, clike::Parser::parseBlock and the while
\* loop of parseBlock
RECURSIVE ClikeParseStatement(_, _), ClikeParseBlock(_, _), ClikeBlockLoop(_, _, _)
ClikeParseStatement(ts, s) ==
  IF Tok(ts, s.p) = "return" THEN ClikeParseReturnStatement(ts, s)
  ELSE IF Tok(ts, s.p) = "{" THEN ClikeParseBlock(ts, s)
  ELSE LET expr == ClikeParsePrimary(ts, s) IN
       PR(TRUE, Node("expr", s.p, IF expr.ok THEN <<expr.t>> ELSE <<>>),
          expr.p, expr.errs)

ClikeParseBlock(ts, s) ==
  ClikeBlockLoop(ts, ClikeExpect(ts, s, "{"), <<>>)

ClikeBlockLoop(ts, s, statements) ==
  IF Tok(ts, s.p) \in {"}", "eof"}
  THEN LET s1 == ClikeExpect(ts, s, "}") IN
       PR(TRUE, Node("block", 0, statements), s1.p, s1.errs)
  ELSE LET statement == ClikeParseStatement(ts, s) IN
       IF ~statement.ok THEN statement
       ELSE IF Tok(ts, statement.p) = ";"
       THEN ClikeBlockLoop(ts, [statement EXCEPT !.p = @ + 1],
                           Append(statements, statement.t))
       ELSE IF statement.p = s.p THEN Hang(s.p, statement.errs)
       ELSE ClikeBlockLoop(ts, statement, Append(statements, statement.t))

\* the do-while loop over the parameters of clike::Parser::parseFunction
RECURSIVE ClikeParams(_, _)
ClikeParams(ts, s) ==
  IF Tok(ts, s.p) # "id" THEN Null(s.p, s.errs + 1)
  ELSE IF Tok(ts, s.p + 1) # ")" THEN ClikeParams(ts, [s EXCEPT !.p = @ + 1])
  ELSE PR(TRUE, <<>>, s.p + 1, s.errs)

\* clike::Parser::parseFunction
ClikeParseFunction(ts, s) ==
  IF Tok(ts, s.p) # "id" THEN Null(s.p, s.errs + 1)
  ELSE LET s1 == ClikeExpect(ts, [s EXCEPT !.p = @ + 1], "(")
           args == IF Tok(ts, s1.p) # ")" THEN ClikeParams(ts, s1)
                   ELSE PR(TRUE, <<>>, s1.p, s1.errs)
       IN IF ~args.ok THEN args
          ELSE LET s2 == ClikeExpect(ts, ClikeExpect(ts, args, ")"), "{")
                   body == ClikeParseBlock(ts, s2)
               IN IF ~body.ok THEN body
                  ELSE LET s3 == ClikeExpect(ts, body, "}") IN
                       PR(TRUE, Node("function", s.p, <<body.t>>), s3.p, s3.errs)

\* clike::Parser::parseProgram
RECURSIVE ClikeParseProgram(_, _, _)
ClikeParseProgram(ts, s, functions) ==
  IF Tok(ts, s.p) = "eof" THEN PR(TRUE, functions, s.p, s.errs)
  ELSE LET function == ClikeParseFunction(ts, s) IN
       IF ~function.ok THEN function
       ELSE ClikeParseProgram(ts, function, Append(functions, function.t))

\* Parser::parseExpression of src/parser.h down to parsePrimary, for a stream
\* without operators, numbers and parentheses
HdrPrimary(ts, s) ==
  IF Tok(ts, s.p) = "id" THEN PR(TRUE, Node("var", s.p, <<>>), s.p + 1, s.errs)
  ELSE Null(s.p, s.errs + 1)

\* Parser::parseStatement of src/parser.h: `return` and the default case
HdrParseStatement(ts, s) ==
  IF Tok(ts, s.p) = "return"
  THEN LET expr == IF Tok(ts, s.p + 1) # ";" THEN HdrPrimary(ts, [s EXCEPT !.p = @ + 1])
                   ELSE PR(TRUE, <<>>, s.p + 1, s.errs)
       IN IF ~expr.ok THEN expr
          ELSE IF Tok(ts, expr.p) # ";" THEN Null(expr.p, expr.errs + 1)
          ELSE PR(TRUE, Node("return", s.p, IF expr.t = <<>> THEN <<>> ELSE <<expr.t>>),
                  expr.p + 1, expr.errs)
  ELSE LET expr == HdrPrimary(ts, s) IN
       IF ~expr.ok THEN expr
       ELSE IF Tok(ts, expr.p) # ";" THEN Null(expr.p, expr.errs + 1)
       ELSE PR(TRUE, Node("expr", s.p, <<expr.t>>), expr.p + 1, expr.errs)

\* the while loop of Parser::parseBlock of src/parser.h
RECURSIVE HdrBlockLoop(_, _, _)
HdrBlockLoop(ts, s, statements) ==
  IF Tok(ts, s.p) \in {"}", "eof"}
  THEN IF Tok(ts, s.p) # "}" THEN Null(s.p, s.errs + 1)
       ELSE PR(TRUE, Node("block", 0, statements), s.p + 1, s.errs)
  ELSE LET stmt == HdrParseStatement(ts, s) IN
       IF ~stmt.ok THEN stmt
       ELSE HdrBlockLoop(ts, stmt, Append(statements, stmt.t))

\* Parser::parseBlock of src/parser.h
HdrParseBlock(ts, s) ==
  IF Tok(ts, s.p) # "{" THEN Null(s.p, s.errs + 1)
  ELSE HdrBlockLoop(ts, [s EXCEPT !.p = @ + 1], <<>>)

\* Parser::parseFunction of src/parser.h, for a stream without parameters
HdrParseFunction(ts, s) ==
  IF Tok(ts, s.p) # "int" \/ Tok(ts, s.p + 1) # "id" \/ Tok(ts, s.p + 2) # "("
     \/ Tok(ts, s.p + 3) # ")"
  THEN Null(s.p, s.errs + 1)
  ELSE LET body == HdrParseBlock(ts, [s EXCEPT !.p = @ + 4]) IN
       IF ~body.ok THEN body
       ELSE PR(TRUE, Node("function", s.p + 1, <<body.t>>), body.p, body.errs)

\* Parser::parseProgram of src/parser.h
RECURSIVE HdrParseProgram(_, _, _)
HdrParseProgram(ts, s, functions) ==
  IF Tok(ts, s.p) = "eof" THEN PR(TRUE, functions, s.p, s.errs)
  ELSE LET func == HdrParseFunction(ts, s) IN
       IF ~func.ok THEN func
       ELSE HdrParseProgram(ts, func, Append(functions, func.t))

\* what the caller of parseProgram gets
ProgramResult(r) ==
  [res |-> IF r.hang THEN "hang" ELSE IF r.ok THEN "program" ELSE "null",
   errs |-> r.errs, functions |-> IF r.ok THEN r.t ELSE <<>>]

ClikeParse ==
  /\ gen = "irgen" /\ pc = "idle"
  /\ RoutineReturns(ProgramResult(
       ClikeParseProgram(Stream(gen, inp), PR(TRUE, <<>>, 1, 0), <<>>)))

HdrParseUnit ==
  /\ gen = "ast" /\ pc = "idle"
  /\ RoutineReturns(ProgramResult(
       HdrParseProgram(Stream(gen, inp), PR(TRUE, <<>>, 1, 0), <<>>)))

NextParse == ClikeParse \/ HdrParseUnit

InitParse == RoutineInit /\ gen \in {"irgen", "ast"} /\ inp \in Bodies

SpecParse == InitParse /\ [][NextParse]_vars

\* the grammar: block := '{' stmt* '}', stmt := block | 'return' expr? ';'
\* | expr ';', expr := IDENT; the node of the construct at p and the position
\* after it, or ok = FALSE
RECURSIVE GrammarStmt(_, _), GrammarStmts(_, _, _)
GrammarStmt(ts, p) ==
  IF Tok(ts, p) = "{" THEN GrammarStmts(ts, p + 1, <<>>)
  ELSE IF Tok(ts, p) = "return" /\ Tok(ts, p + 1) = ";"
  THEN PR(TRUE, Node("return", p, <<>>), p + 2, 0)
  ELSE IF Tok(ts, p) = "return" /\ Tok(ts, p + 1) = "id" /\ Tok(ts, p + 2) = ";"
  THEN PR(TRUE, Node("return", p, <<Node("var", p + 1, <<>>)>>), p + 3, 0)
  ELSE IF Tok(ts, p) = "id" /\ Tok(ts, p + 1) = ";"
  THEN PR(TRUE, Node("expr", p, <<Node("var", p, <<>>)>>), p + 2, 0)
  ELSE Null(p, 0)

GrammarStmts(ts, p, stmts) ==
  IF Tok(ts, p) = "}" THEN PR(TRUE, Node("block", 0, stmts), p + 1, 0)
  ELSE LET st == GrammarStmt(ts, p) IN
       IF ~st.ok THEN st ELSE GrammarStmts(ts, st.p, Append(stmts, st.t))

\* the body block of the function of the stream, by the grammar
GrammarBody(g, body) ==
  LET ts == Stream(g, body)
      at == Len(ts) - Len(body) + 1
  IN IF Tok(ts, at) = "{" THEN GrammarStmts(ts, at + 1, <<>>) ELSE Null(at, 0)

\* the stream is one function of the grammar
Conforming(g, body) ==
  GrammarBody(g, body).ok /\ GrammarBody(g, body).p = Len(Stream(g, body)) + 1

\* C19: clike::Parser returns a null program and reports an error for a
\* stream that does not conform to the grammar, and returns a program and
\* reports no error for one that conforms.
C19_UnexpectedTokenFails ==
  (pc = "done" /\ gen = "irgen") =>
    IF Conforming(gen, inp) THEN out.res = "program" /\ out.errs = 0
    ELSE out.res = "null" /\ out.errs > 0

\* C20: the body of the one function of a parsed conforming stream is the
\* body block of the source: every statement once, in source order, nested
\* blocks as nested block nodes.
C20_BodyStatementsInOrder ==
  (pc = "done" /\ out.res = "program" /\ Conforming(gen, inp)) =>
    /\ Len(out.functions) = 1
    /\ out.functions[1].body = <<GrammarBody(gen, inp).t>>

\* C21: for a stream that is one well-formed function definition,
\* clike::Parser::parseProgram returns a program that holds that function.
C21_WellFormedFunctionsParse ==
  (pc = "done" /\ gen = "irgen" /\ Conforming(gen, inp)) =>
    /\ out.res = "program"
    /\ Len(out.functions) = 1
    /\ out.functions[1].k = "function" /\ out.functions[1].at = 1

\* ------------------------------------------------------------------ lexers
MaxLen == 3
MaxCalls == 5

\* the bytes of a source text: blank, newline, a letter, a digit, a
\* punctuator, `/`, the bytes of the two-character operators, and a byte
\* that starts no token
Bytes == {" ", "\n", "a", "1", ";", "/", "=", "!", "<", ">", "&", "|", "@"}

Sources == UNION {[1..n -> Bytes] : n \in 0..MaxLen}

\* input_[pos], or NUL past the end
ByteAt(src, pos) == IF pos >= Len(src) THEN "NUL" ELSE src[pos + 1]

\* a token: its type, the position of its first byte and its length in the
\* source, and the line and column it carries (0 where the lexer has none)
Token(type, start, len, line, column) ==
  [type |-> type, start |-> start, len |-> len, line |-> line, column |-> column]

\* what a lexing routine leaves: the lexer's fields and the token returned
Lexed(l, tok) == [l |-> l, tok |-> tok]

\* clike::Lexer::Lexer
ClikeLexer == [position |-> 0, line |-> 1, column |-> 1, peeked |-> <<>>]

\* clike::Lexer::advance
ClikeAdvance(src, l) ==
  IF l.position >= Len(src) THEN l
  ELSE [l EXCEPT !.position = @ + 1, !.column = @ + 1]

\* clike::Lexer::skipComment
RECURSIVE ClikeSkipComment(_, _)
ClikeSkipComment(src, l) ==
  IF l.position < Len(src) /\ ByteAt(src, l.position) # "\n"
  THEN ClikeSkipComment(src, ClikeAdvance(src, l))
  ELSE l

\* clike::Lexer::skipWhitespace
RECURSIVE ClikeSkipWhitespace(_, _)
ClikeSkipWhitespace(src, l) ==
  IF l.position >= Len(src) THEN l
  ELSE IF ByteAt(src, l.position) = " "
  THEN ClikeSkipWhitespace(src, ClikeAdvance(src, l))
  ELSE IF ByteAt(src, l.position) = "\n"
  THEN ClikeSkipWhitespace(src, [ClikeAdvance(src, l) EXCEPT !.line = @ + 1, !.column = 1])
  ELSE IF ByteAt(src, l.position) = "/" /\ l.position + 1 < Len(src)
          /\ ByteAt(src, l.position + 1) = "/"
  THEN ClikeSkipWhitespace(src, ClikeSkipComment(src, l))
  ELSE l

\* the while loops of clike::Lexer::readNumber and readIdentifier
RECURSIVE ClikeReadWhile(_, _, _)
ClikeReadWhile(src, l, set) ==
  IF l.position < Len(src) /\ ByteAt(src, l.position) \in set
  THEN ClikeReadWhile(src, ClikeAdvance(src, l), set)
  ELSE l

\* the token type of an operator text in clike::Lexer::readOperator
ClikeOperatorType(value) ==
  IF value = <<"/">> THEN "DIVIDE"
  ELSE IF value = <<"=">> THEN "ASSIGN"
  ELSE IF value = <<"=", "=">> THEN "EQUAL"
  ELSE IF value = <<"<">> THEN "LESS"
  ELSE IF value = <<">">> THEN "GREATER"
  ELSE IF value = <<"<", "=">> THEN "LESS_EQUAL"
  ELSE IF value = <<">", "=">> THEN "GREATER_EQUAL"
  ELSE IF value = <<"!", "=">> THEN "NOT_EQUAL"
  ELSE "UNKNOWN"

\* clike::Lexer::readOperator
ClikeReadOperator(src, l) ==
  LET l1 == ClikeAdvance(src, l)
      twoChar == <<ByteAt(src, l.position), ByteAt(src, l1.position)>>
      l2 == IF l1.position < Len(src)
               /\ twoChar \in {<<"=", "=">>, <<"!", "=">>, <<"<", "=">>, <<">", "=">>}
            THEN ClikeAdvance(src, l1) ELSE l1
  IN Lexed(l2, Token(ClikeOperatorType(SubSeq(src, l.position + 1, l2.position)),
                     l.position, l2.position - l.position, l.line, l.column))

\* the column a single-character token carries: currentColumn_ is read
\* after advance()
ClikeColumnRead(before, after) == after.column

\* clike::Lexer::getNextToken
ClikeGetNext(src, l0) ==
  LET l == ClikeSkipWhitespace(src, l0)
      current == ByteAt(src, l.position)
  IN IF l.position >= Len(src)
     THEN Lexed(l, Token("END_OF_FILE", l.position, 0, l.line, l.column))
     ELSE IF current = "1"
     THEN LET l1 == ClikeReadWhile(src, l, {"1"}) IN
          Lexed(l1, Token("NUMBER", l.position, l1.position - l.position, l.line, l.column))
     ELSE IF current = "a"
     THEN LET l1 == ClikeReadWhile(src, l, {"a", "1"}) IN
          Lexed(l1, Token("IDENTIFIER", l.position, l1.position - l.position,
                          l.line, l.column))
     ELSE IF current \in {"/", "=", "<", ">", "!"}
     THEN ClikeReadOperator(src, l)
     ELSE LET l1 == ClikeAdvance(src, l) IN
          Lexed(l1, Token(IF current = ";" THEN "SEMICOLON" ELSE "UNKNOWN",
                          l.position, 1, l1.line, ClikeColumnRead(l, l1)))

\* position_, currentLine_ and currentColumn_ after peekToken: the lexer
\* keeps what getNextToken left
PeekKept(saved, after) == after

\* position_, currentLine_ and currentColumn_ after peekToken: the saved ones
PeekRestored(saved, after) == saved

\* the parser calls Lexer::getNextToken
ClikeGetNextToken ==
  /\ gen = "irgen" /\ Len(out) < MaxCalls
  /\ LET r == ClikeGetNext(inp, lexer) IN
     /\ lexer' = [r.l EXCEPT !.peeked = <<>>]
     /\ out' = Append(out, r.tok)
  /\ UNCHANGED <<inp, gen, pc, blocks, fnBlocks, cursor, scopes, nslots, stack, ret,
                 fuel, loops, lexical, depth0, inModule, retType>>

\* the parser calls clike::Lexer::peekToken; `peeked` records the token
ClikePeekToken ==
  /\ gen = "irgen" /\ Len(out) < MaxCalls
  /\ LET r == ClikeGetNext(inp, lexer) IN
     lexer' = [PeekRestored(lexer, r.l) EXCEPT !.peeked = <<r.tok>>]
  /\ UNCHANGED <<inp, out, gen, pc, blocks, fnBlocks, cursor, scopes, nslots, stack, ret,
                 fuel, loops, lexical, depth0, inModule, retType>>

NextClikeLex == ClikeGetNextToken \/ ClikePeekToken

InitClikeLex == RoutineIdle /\ gen = "irgen" /\ inp \in Sources /\ lexer = ClikeLexer

SpecClikeLex == InitClikeLex /\ [][NextClikeLex]_vars

\* C22: clike::Lexer::peekToken leaves position, line and column as they
\* were, and the token it returned is the token the next getNextToken
\* returns.
C22_PeekDoesNotAdvance ==
  [][/\ (gen = "irgen" /\ out' = out) =>
          /\ lexer'.position = lexer.position
          /\ lexer'.line = lexer.line
          /\ lexer'.column = lexer.column
     /\ (gen = "irgen" /\ out' # out /\ lexer.peeked # <<>>) =>
          out' = Append(out, lexer.peeked[1])]_vars

\* a token was peeked after the first byte was lexed, and is not the end of
\* the input
C22_Witness ==
  /\ gen = "irgen" /\ Len(out) >= 1
  /\ lexer.peeked # <<>> /\ lexer.peeked[1].type # "END_OF_FILE"
  /\ lexer.position < lexer.peeked[1].start + lexer.peeked[1].len

\* the 1-based line of the byte at pos, and its 1-based column
LineOf(src, pos) == 1 + Cardinality({i \in 1..pos : src[i] = "\n"})

ColumnOf(src, pos) ==
  LET nls == {i \in 1..pos : src[i] = "\n"}
      k == IF nls = {} THEN 0 ELSE CHOOSE i \in nls : \A j \in nls : j <= i
  IN pos - k + 1

\* C24: every token returned by clike::Lexer::getNextToken carries the line
\* and the column of its first byte.
C24_TokenCarriesItsPosition ==
  gen = "irgen" =>
    \A i \in DOMAIN out :
      /\ out[i].line = LineOf(inp, out[i].start)
      /\ out[i].column = ColumnOf(inp, out[i].start)

\* Lexer::Lexer of src/lexer.h
HdrLexer == [pos |-> 0, lastChar |-> " "]

\* Lexer::getChar of src/lexer.h, assigned to lastChar
HdrGetChar(src, l) ==
  IF l.pos >= Len(src) THEN [l EXCEPT !.lastChar = "EOF"]
  ELSE [pos |-> l.pos + 1, lastChar |-> src[l.pos + 1]]

\* the loops `while (<lastChar in set>) lastChar = getChar()` of gettok
RECURSIVE HdrWhile(_, _, _)
HdrWhile(src, l, set) ==
  IF l.lastChar \in set THEN HdrWhile(src, HdrGetChar(src, l), set) ELSE l

\* the position in the source of the byte held in lastChar
HdrStart(src, l) == IF l.lastChar = "EOF" THEN Len(src) ELSE l.pos - 1

\* a token of gettok that began at `start` and left the lexer as l
HdrToken(src, type, start, l) ==
  Lexed(l, Token(type, start, HdrStart(src, l) - start, 0, 0))

\* Lexer::gettok of src/lexer.h
RECURSIVE HdrGettok(_, _)
HdrGettok(src, l0) ==
  LET l == HdrWhile(src, l0, {" ", "\n"})
      start == HdrStart(src, l)
      l1 == HdrGetChar(src, l)
      l2 == HdrGetChar(src, l1)
  IN IF l.lastChar = "a"
     THEN HdrToken(src, "tok_identifier", start, HdrWhile(src, l1, {"a", "1"}))
     ELSE IF l.lastChar = "1"
     THEN HdrToken(src, "tok_number", start, HdrWhile(src, l1, {"1"}))
     ELSE IF l.lastChar = "/" /\ l1.lastChar # "/"
     THEN HdrToken(src, "/", start, l1)
     ELSE IF l.lastChar = "/"
     THEN LET l3 == HdrWhile(src, l2, Bytes \ {"\n"}) IN
          IF l3.lastChar # "EOF" THEN HdrGettok(src, l3)
          ELSE HdrToken(src, "tok_eof", Len(src), l3)
     ELSE IF l.lastChar \in {"=", "!", "<", ">"}
     THEN IF l1.lastChar = "="
          THEN HdrToken(src, IF l.lastChar = "=" THEN "tok_eq"
                             ELSE IF l.lastChar = "!" THEN "tok_ne"
                             ELSE IF l.lastChar = "<" THEN "tok_le" ELSE "tok_ge",
                        start, l2)
          ELSE HdrToken(src, l.lastChar, start, l1)
     ELSE IF l.lastChar = "EOF" THEN HdrToken(src, "tok_eof", start, l)
     ELSE HdrToken(src, l.lastChar, start, l1)

\* Lexer::Lexer of src/lexer.cpp; currentChar is the byte at `position`
KalLexer == [position |-> 0]

\* Lexer::advance of src/lexer.cpp
KalAdvance(l) == [l EXCEPT !.position = @ + 1]

\* the loops of skipWhitespace, skipComment, readNumber and readIdentifier
\* of src/lexer.cpp
RECURSIVE KalWhile(_, _, _)
KalWhile(src, l, set) ==
  IF ByteAt(src, l.position) \in set THEN KalWhile(src, KalAdvance(l), set) ELSE l

\* Lexer::getNextToken of src/lexer.cpp
RECURSIVE KalGetNext(_, _)
KalGetNext(src, l0) ==
  LET l == KalWhile(src, l0, {" ", "\n"})
      currentChar == ByteAt(src, l.position)
      next == ByteAt(src, l.position + 1)
      tok(type, l1) == Lexed(l1, Token(type, l.position, l1.position - l.position, 0, 0))
  IN IF currentChar = "/" /\ next = "/"
     THEN KalGetNext(src, KalWhile(src, l, Bytes \ {"\n"}))
     ELSE IF currentChar = "NUL" THEN tok("tok_eof", l)
     ELSE IF currentChar = "1" THEN tok("tok_number", KalWhile(src, l, {"1"}))
     ELSE IF currentChar = "a" THEN tok("tok_identifier", KalWhile(src, l, {"a", "1"}))
     ELSE IF currentChar \in {"=", "!", "<", ">"} /\ next = "="
     THEN tok(IF currentChar = "=" THEN "tok_eq"
              ELSE IF currentChar = "!" THEN "tok_ne"
              ELSE IF currentChar = "<" THEN "tok_le" ELSE "tok_ge",
              KalAdvance(KalAdvance(l)))
     ELSE IF currentChar = "=" THEN tok("tok_assign", KalAdvance(l))
     ELSE IF currentChar = "<" THEN tok("tok_lt", KalAdvance(l))
     ELSE IF currentChar = ">" THEN tok("tok_gt", KalAdvance(l))
     ELSE IF currentChar = ";" THEN tok("tok_semicolon", KalAdvance(l))
     ELSE IF currentChar = "/" THEN tok("/", KalAdvance(l))
     ELSE KalGetNext(src, KalAdvance(l))

\* the parser calls Lexer::gettok of src/lexer.h
HdrGettokCall ==
  /\ gen = "ast" /\ Len(out) < MaxCalls
  /\ LET r == HdrGettok(inp, lexer) IN lexer' = r.l /\ out' = Append(out, r.tok)
  /\ UNCHANGED <<inp, gen, pc, blocks, fnBlocks, cursor, scopes, nslots, stack, ret,
                 fuel, loops, lexical, depth0, inModule, retType>>

\* the parser calls Lexer::getNextToken of src/lexer.cpp
KalGetNextToken ==
  /\ gen = "exprast" /\ Len(out) < MaxCalls
  /\ LET r == KalGetNext(inp, lexer) IN lexer' = r.l /\ out' = Append(out, r.tok)
  /\ UNCHANGED <<inp, gen, pc, blocks, fnBlocks, cursor, scopes, nslots, stack, ret,
                 fuel, loops, lexical, depth0, inModule, retType>>

NextLex == ClikeGetNextToken \/ HdrGettokCall \/ KalGetNextToken

InitLex ==
  /\ RoutineIdle /\ gen \in {"irgen", "ast", "exprast"} /\ inp \in Sources
  /\ lexer = IF gen = "irgen" THEN ClikeLexer
             ELSE IF gen = "ast" THEN HdrLexer ELSE KalLexer

SpecLex == InitLex /\ [][NextLex]_vars

\* the two-character operators
TwoCharOps ==
  {<<"=", "=">>, <<"!", "=">>, <<"<", "=">>, <<">", "=">>,
   <<"&", "&">>, <<"|", "|">>, <<"<", "<">>, <<">", ">">>}

\* C23: a token that starts at the first byte of a two-character operator
\* holds both bytes when the second follows, and the first byte alone
\* otherwise.
C23_MaximalMunch ==
  \A i \in DOMAIN out :
    LET c == ByteAt(inp, out[i].start)
        d == ByteAt(inp, out[i].start + 1)
    IN c \in {"=", "!", "<", ">", "&", "|"} =>
         out[i].len = IF <<c, d>> \in TwoCharOps THEN 2 ELSE 1

\* the bytes from..to-1 are blanks, newlines and line comments
RECURSIVE Skippable(_, _, _)
Skippable(src, from, to) ==
  IF from >= to THEN TRUE
  ELSE IF ByteAt(src, from) \in {" ", "\n"} THEN Skippable(src, from + 1, to)
  ELSE IF ByteAt(src, from) = "/" /\ ByteAt(src, from + 1) = "/"
  THEN LET nls == {p \in from..(Len(src) - 1) : ByteAt(src, p) = "\n"} IN
       IF nls = {} THEN TRUE
       ELSE Skippable(src, CHOOSE p \in nls : \A q \in nls : p <= q, to)
  ELSE FALSE

\* C25: the lexer skips only blanks and comments between two tokens, and a
\* token that starts at a byte that starts no token is an error at which
\* lexing stops: no token follows it.
C25_UnknownByteIsFatal ==
  \A i \in DOMAIN out :
    /\ Skippable(inp, IF i = 1 THEN 0 ELSE out[i - 1].start + out[i - 1].len,
                 out[i].start)
    /\ ByteAt(inp, out[i].start) = "@" => (out[i].type = "UNKNOWN" /\ i = Len(out))

\* ===================================================================
\* The continuation block of an if without else
\* ===================================================================

\* function bodies of mini and of CodeGen made of if, while, return, compound
\* and expression statements, drawn up to MaxIfStmts statements
NextIfs ==
  \/ MiniFunctionBegin(<<>>)
  \/ MiniBlockBegin
  \/ MiniBlockEnd
  \/ MiniExprStmt(NumE)
  \/ MiniReturn(NumE)
  \/ \E h \in BOOLEAN : MiniIfBegin(NumE, h)
  \/ MiniIfThenEnd
  \/ MiniIfElseEnd
  \/ MiniWhileBegin(NumE)
  \/ MiniWhileEnd
  \/ MiniFunctionEnd
  \/ CgFunctionBegin(<<>>)
  \/ CgReturn(NumE)
  \/ CgExprStmt(NumE)
  \/ CgIfBegin(NumE)
  \/ CgIfThenEnd
  \/ CgIfElseEnd
  \/ CgWhileBegin(NumE)
  \/ CgWhileEnd
  \/ CgFunctionEnd

InitIfs ==
  /\ Init /\ gen \in {"mini", "cg"} /\ fuel = MaxIfStmts /\ retType = "int"

SpecIfs == InitIfs /\ [][NextIfs]_vars

\* the instruction i transfers control to block b
BranchesTo(i, b) ==
  \/ i.op = "br" /\ i.x = b
  \/ i.op = "condbr" /\ (i.x = b \/ i.y = b)

\* the blocks that hold a branch to b
Predecessors(bs, b) ==
  {p \in 1..Len(bs) : \E k \in 1..Len(bs[p].instrs) : BranchesTo(bs[p].instrs[k], b)}

\* the step of IfStmt::codegen that ends an if without else
MiniIfWithoutElseEnds ==
  /\ gen = "mini" /\ pc = "run" /\ stack # <<>>
  /\ Top.k = "then" /\ ~Top.f
  /\ cursor' = Top.b3

\* the step of CodeGen::codegenIf that ends an if whose elseStmts is empty
CgIfWithoutElseEnds ==
  /\ gen = "cg" /\ pc = "run" /\ stack # <<>>
  /\ Top.k = "elselist" /\ Top.f.stmts = fuel
  /\ cursor' = Top.b3

\* the then arm ended in block e without a terminator / in a return
FallsThrough(bs, e, merge) ==
  ~GetTerminator(bs, e) \/ EndsIn(bs, e, Instr("br", merge, 0))

EndsInReturn(bs, e) == bs[e].instrs # <<>> /\ LastInstr(bs, e).op = "ret"

C28_ParseProgramTerminates ==
  (pc = "done" /\ gen = "irgen") => out.res # "hang"

\* ===================================================================
\* Calls: clike::Parser::parseCall of src/src/parser.cpp
\* ===================================================================

\* the tokens of an expression made of names, numbers, calls and parentheses
CallToks == {"id", "num", "(", ")", ","}

CallStreams == UNION {[1..n -> CallToks] : n \in 0..MaxToks}

\* clike::Parser::match: currentToken_ is tested and left in place
ClikeMatch(ts, s, type) == Tok(ts, s.p) = type

\* clike::Parser::parsePrimary, which is all of parseExpression on a stream
\* without operators, clike::Parser::parseCall and its do-while loop
RECURSIVE ClikePrimary(_, _), ClikeParseCall(_, _, _), ClikeCallArgs(_, _, _, _)
ClikePrimary(ts, s) ==
  IF Tok(ts, s.p) = "num" THEN PR(TRUE, Node("num", s.p, <<>>), s.p + 1, s.errs)
  ELSE IF Tok(ts, s.p) = "id"
  THEN IF Tok(ts, s.p + 1) = "("
       THEN ClikeParseCall(ts, [s EXCEPT !.p = @ + 1], s.p)
       ELSE PR(TRUE, Node("var", s.p, <<>>), s.p + 1, s.errs)
  ELSE IF Tok(ts, s.p) = "("
  THEN LET expr == ClikePrimary(ts, [s EXCEPT !.p = @ + 1]) IN
       IF ~expr.ok THEN expr
       ELSE LET s1 == ClikeExpect(ts, expr, ")") IN PR(TRUE, expr.t, s1.p, s1.errs)
  ELSE Null(s.p, s.errs + 1)

ClikeParseCall(ts, s, callee) ==
  LET s1 == ClikeExpect(ts, s, "(") IN
  IF Tok(ts, s1.p) # ")" THEN ClikeCallArgs(ts, s1, callee, <<>>)
  ELSE LET s2 == ClikeExpect(ts, s1, ")") IN
       PR(TRUE, Node("call", callee, <<>>), s2.p, s2.errs)

ClikeCallArgs(ts, s, callee, args) ==
  LET arg == ClikePrimary(ts, s) IN
  IF ~arg.ok THEN arg
  ELSE IF ClikeMatch(ts, arg, ",")
  THEN ClikeCallArgs(ts, arg, callee, Append(args, arg.t))
  ELSE LET s2 == ClikeExpect(ts, arg, ")") IN
       PR(TRUE, Node("call", callee, Append(args, arg.t)), s2.p, s2.errs)

ClikeParseCallExpression ==
  /\ gen = "irgen" /\ pc = "idle"
  /\ RoutineReturns(ClikePrimary(inp, PR(TRUE, <<>>, 1, 0)))

NextCallArgs == ClikeParseCallExpression

InitCallArgs == RoutineInit /\ gen = "irgen" /\ inp \in CallStreams

SpecCallArgs == InitCallArgs /\ [][NextCallArgs]_vars

\* the expression the grammar gives a stream from position p: a number, a
\* name, a parenthesised expression, or a call name ( e1 , ... , en )
RECURSIVE GrammarExpr(_, _), GrammarArgs(_, _, _, _)
GrammarExpr(ts, p) ==
  IF Tok(ts, p) = "num" THEN PR(TRUE, Node("num", p, <<>>), p + 1, 0)
  ELSE IF Tok(ts, p) = "id"
  THEN IF Tok(ts, p + 1) # "(" THEN PR(TRUE, Node("var", p, <<>>), p + 1, 0)
       ELSE IF Tok(ts, p + 2) = ")" THEN PR(TRUE, Node("call", p, <<>>), p + 3, 0)
       ELSE GrammarArgs(ts, p + 2, p, <<>>)
  ELSE IF Tok(ts, p) = "("
  THEN LET e == GrammarExpr(ts, p + 1) IN
       IF e.ok /\ Tok(ts, e.p) = ")" THEN PR(TRUE, e.t, e.p + 1, 0) ELSE Null(p, 0)
  ELSE Null(p, 0)

GrammarArgs(ts, p, callee, args) ==
  LET e == GrammarExpr(ts, p) IN
  IF ~e.ok THEN Null(p, 0)
  ELSE IF Tok(ts, e.p) = "," THEN GrammarArgs(ts, e.p + 1, callee, Append(args, e.t))
  ELSE IF Tok(ts, e.p) = ")"
  THEN PR(TRUE, Node("call", callee, Append(args, e.t)), e.p + 1, 0)
  ELSE Null(p, 0)

\* the stream is one call f(e1, ..., en)
IsCall(ts) ==
  /\ GrammarExpr(ts, 1).ok /\ GrammarExpr(ts, 1).p = Len(ts) + 1
  /\ GrammarExpr(ts, 1).t.k = "call" /\ GrammarExpr(ts, 1).t.at = 1

\* C30: for a stream that is one call f(e1, ..., en), the parser consumes the
\* whole argument list with its closing parenthesis and returns the call node
\* of f with exactly the n arguments, in order.
C30_CallArgumentsInOrder ==
  (pc = "done" /\ IsCall(inp)) =>
    /\ out.ok /\ out.p = Len(inp) + 1
    /\ out.t = GrammarExpr(inp, 1).t

\* ===================================================================
\* Statements: Parser::parseStatement of src/parser.cpp
\* ===================================================================

\* the tokens Lexer::getNextToken gives for names, numbers, ( ) ; = and +
StmtToks ==
  {"tok_identifier", "tok_number", "tok_lparen", "tok_rparen", "tok_semicolon",
   "tok_assign", "+"}

StmtStreams == UNION {[1..n -> StmtToks] : n \in 0..MaxToks}

\* the token at position p of the stream
StmtTok(ts, p) == IF p > Len(ts) THEN "tok_eof" ELSE ts[p]

\* the statics of Lexer after the first token was read: the position the lexer
\* has reached, CurTok, and the token IdentifierStr was read from
StmtStart(ts) ==
  [p |-> 1, CurTok |-> StmtTok(ts, 1),
   IdentifierStr |-> IF StmtTok(ts, 1) = "tok_identifier" THEN 1 ELSE 0]

\* Lexer::getNextTok: CurTok becomes the next token of the lexer, which stays
\* at the end of its input once it has given tok_eof
getNextTok(ts, s) ==
  IF s.p > Len(ts) THEN [s EXCEPT !.CurTok = "tok_eof"]
  ELSE [p |-> s.p + 1, CurTok |-> StmtTok(ts, s.p + 1),
        IdentifierStr |-> IF StmtTok(ts, s.p + 1) = "tok_identifier" THEN s.p + 1
                          ELSE s.IdentifierStr]

\* what a parse routine returns: a node or nullptr, and the statics it leaves
StmtResult(ok, t, s) == [ok |-> ok, t |-> t, s |-> s]

\* Parser::getTokPrecedence
getTokPrecedence(s) == IF s.CurTok = "+" THEN 20 ELSE -1

\* Parser::parseNumberExpr
parseNumberExpr(ts, s) ==
  StmtResult(TRUE, Node("num", s.p, <<>>), getNextTok(ts, s))

RECURSIVE parsePrimary(_, _), parseIdentifierExpr(_, _), parseArgs(_, _, _, _),
          parseParenExpr(_, _), parseExpression(_, _), StmtBinOpRHS(_, _, _)

\* Parser::parseParenExpr: the closing token is compared with the character ')'
parseParenExpr(ts, s) ==
  LET V == parseExpression(ts, getNextTok(ts, s)) IN
  IF ~V.ok THEN V
  ELSE IF V.s.CurTok # ")" THEN StmtResult(FALSE, <<>>, V.s)
  ELSE StmtResult(TRUE, V.t, getNextTok(ts, V.s))

\* Parser::parseIdentifierExpr and the loop over its arguments
parseIdentifierExpr(ts, s) ==
  LET idName == s.IdentifierStr
      s1 == getNextTok(ts, s)
  IN IF s1.CurTok # "tok_lparen" THEN StmtResult(TRUE, Node("var", idName, <<>>), s1)
     ELSE LET s2 == getNextTok(ts, s1) IN
          IF s2.CurTok # "tok_rparen" THEN parseArgs(ts, s2, idName, <<>>)
          ELSE StmtResult(TRUE, Node("call", idName, <<>>), getNextTok(ts, s2))

parseArgs(ts, s, idName, Args) ==
  LET Arg == parseExpression(ts, s) IN
  IF ~Arg.ok THEN Arg
  ELSE IF Arg.s.CurTok = "tok_rparen"
  THEN StmtResult(TRUE, Node("call", idName, Append(Args, Arg.t)),
                  getNextTok(ts, Arg.s))
  ELSE IF Arg.s.CurTok # "tok_comma" THEN StmtResult(FALSE, <<>>, Arg.s)
  ELSE parseArgs(ts, getNextTok(ts, Arg.s), idName, Append(Args, Arg.t))

\* Parser::parsePrimary
parsePrimary(ts, s) ==
  IF s.CurTok = "tok_identifier" THEN parseIdentifierExpr(ts, s)
  ELSE IF s.CurTok = "tok_number" THEN parseNumberExpr(ts, s)
  ELSE IF s.CurTok = "tok_lparen" THEN parseParenExpr(ts, s)
  ELSE StmtResult(FALSE, <<>>, s)

\* Parser::parseBinOpRHS of src/parser.cpp on the stream, LHS parsed
StmtBinOpRHS(ts, ExprPrec, LHS) ==
  LET TokPrec == getTokPrecedence(LHS.s) IN
  IF TokPrec < ExprPrec THEN LHS
  ELSE LET BinOp == LHS.s.p
           RHS == parsePrimary(ts, getNextTok(ts, LHS.s))
       IN IF ~RHS.ok THEN RHS
          ELSE LET RHS2 == IF TokPrec < getTokPrecedence(RHS.s)
                           THEN StmtBinOpRHS(ts, TokPrec + 1, RHS) ELSE RHS
               IN IF ~RHS2.ok THEN RHS2
                  ELSE StmtBinOpRHS(ts, ExprPrec,
                         StmtResult(TRUE, Node("binop", BinOp, <<LHS.t, RHS2.t>>),
                                    RHS2.s))

\* Parser::parseExpression
parseExpression(ts, s) ==
  LET LHS == parsePrimary(ts, s) IN
  IF ~LHS.ok THEN LHS ELSE StmtBinOpRHS(ts, 0, LHS)

\* Parser::parseAssignment
parseAssignment(ts, s) ==
  LET varName == s.IdentifierStr
      s1 == getNextTok(ts, s)
  IN IF s1.CurTok # "tok_assign" THEN StmtResult(FALSE, <<>>, s1)
     ELSE LET value == parseExpression(ts, getNextTok(ts, s1)) IN
          IF ~value.ok THEN value
          ELSE StmtResult(TRUE, Node("assign", varName, <<value.t>>), value.s)

\* Parser::parseExpressionStatement
parseExpressionStatement(ts, s) ==
  LET expr == parseExpression(ts, s) IN
  IF ~expr.ok THEN expr ELSE StmtResult(TRUE, Node("expr", 0, <<expr.t>>), expr.s)

\* the `;` that parseStatement consumes after the statement
ConsumeSemicolon(ts, r) ==
  IF r.s.CurTok = "tok_semicolon" THEN [r EXCEPT !.s = getNextTok(ts, r.s)] ELSE r

\* Parser::parseStatement on a stream of StmtToks
parseStatement(ts, s) ==
  IF s.CurTok = "tok_identifier"
  THEN LET saved_identifier == s.IdentifierStr
           s1 == getNextTok(ts, s)
       IN IF s1.CurTok = "tok_assign"
          THEN ConsumeSemicolon(ts,
                 parseAssignment(ts, [s1 EXCEPT !.IdentifierStr = saved_identifier]))
          ELSE ConsumeSemicolon(ts,
                 parseExpressionStatement(ts,
                   [s1 EXCEPT !.IdentifierStr = saved_identifier,
                              !.CurTok = "tok_identifier"]))
  ELSE ConsumeSemicolon(ts, parseExpressionStatement(ts, s))

ParseStatementCall ==
  /\ gen = "exprast" /\ pc = "idle"
  /\ RoutineReturns(parseStatement(inp, StmtStart(inp)))

NextStmts == ParseStatementCall

InitStmts == RoutineInit /\ gen = "exprast" /\ inp \in StmtStreams

SpecStmts == InitStmts /\ [][NextStmts]_vars

\* C29: a statement that starts with an identifier not followed by `=` is
\* parsed as the expression parser parses its tokens from the identifier on,
\* each token once and in order: the statement and the token the parser stands
\* on afterwards are those of parseExpressionStatement run from the identifier.
C29_NoTokenLost ==
  (pc = "done" /\ StmtTok(inp, 1) = "tok_identifier"
     /\ StmtTok(inp, 2) # "tok_assign") =>
    out = ConsumeSemicolon(inp, parseExpressionStatement(inp, StmtStart(inp)))

\* ===================================================================
\* The drivers: main of src/src/main.cpp and of src/main.cpp
\* ===================================================================

\* the arguments of an invocation, after argv[0]
MaxArgv == 3

\* "in.c" exists with text, "empty.c" exists without, "missing.c" does not exist
ArgWords == {"-h", "-v", "-o", "-i", "-x", "in.c", "empty.c", "missing.c"}

\* an invocation: the arguments, and what the stages do with the text of
\* in.c and with the output file
Invocations ==
  [argv : UNION {[1..n -> ArgWords] : n \in 0..MaxArgv},
   parse : {"program", "null", "throw"},
   codegen : {"module", "null"},
   verify : BOOLEAN,
   output : BOOLEAN]

\* arg[0] == '-'
Dashed(arg) == arg \in {"-h", "-v", "-o", "-i", "-x"}

\* readFile of both drivers: "" when the file cannot be opened
readFile(filename) == IF filename = "in.c" THEN "text" ELSE ""

\* the loop over argv of main in src/src/main.cpp from argument i; exit is
\* the status main returns from inside the loop, -1 if it leaves the loop
RECURSIVE ClikeMainArgs(_, _, _)
ClikeMainArgs(argv, i, st) ==
  IF i > Len(argv) THEN st
  ELSE IF argv[i] = "-h" THEN [st EXCEPT !.exit = 0]
  ELSE IF argv[i] = "-v" THEN ClikeMainArgs(argv, i + 1, [st EXCEPT !.verbose = TRUE])
  ELSE IF argv[i] = "-o" /\ i + 1 <= Len(argv)
  THEN ClikeMainArgs(argv, i + 2, [st EXCEPT !.outputFile = argv[i + 1]])
  ELSE IF ~Dashed(argv[i])
  THEN ClikeMainArgs(argv, i + 1, [st EXCEPT !.inputFile = argv[i]])
  ELSE [st EXCEPT !.exit = 1]

\* main of src/src/main.cpp: the exit status
ClikeMainStatus(v) ==
  LET st == ClikeMainArgs(v.argv, 1,
              [inputFile |-> "", outputFile |-> "", verbose |-> FALSE, exit |-> -1])
  IN IF st.exit # -1 THEN st.exit
     ELSE IF st.inputFile = "" THEN 1
     ELSE IF readFile(st.inputFile) = "" THEN 1
     ELSE IF v.parse = "throw" THEN 1
     ELSE IF v.parse = "null" THEN 1
     ELSE IF v.codegen = "null" THEN 1
     ELSE IF ~v.verify THEN 1
     ELSE IF st.outputFile # "" /\ ~v.output THEN 1
     ELSE 0

\* main and compileFile of src/main.cpp: the exit status
KalMainStatus(v) ==
  IF Len(v.argv) < 1 THEN 1
  ELSE IF v.argv[1] = "-h" THEN 0
  ELSE IF v.argv[1] = "-i" THEN 0
  ELSE 0

ClikeMain ==
  /\ gen = "irgen" /\ pc = "idle"
  /\ RoutineReturns(ClikeMainStatus(inp))

KalMain ==
  /\ gen = "exprast" /\ pc = "idle"
  /\ RoutineReturns(KalMainStatus(inp))

NextMain == ClikeMain \/ KalMain

InitMain == RoutineInit /\ gen \in {"irgen", "exprast"} /\ inp \in Invocations

SpecMain == InitMain /\ [][NextMain]_vars

\* the flags each driver's usage text names
KnownFlags(g) == IF g = "irgen" THEN {"-h", "-v", "-o"} ELSE {"-h", "-i"}

\* the arguments of the invocation that name its input: not a flag and not
\* the operand of -o
InputArgs(g, argv) ==
  {i \in 1..Len(argv) :
     /\ ~Dashed(argv[i])
     /\ ~(g = "irgen" /\ i > 1 /\ argv[i - 1] = "-o")}

\* an invocation the description calls unusable: an unknown flag, no input
\* file, or an input file that does not exist
Unusable(g, argv) ==
  \/ \E i \in 1..Len(argv) : Dashed(argv[i]) /\ argv[i] \notin KnownFlags(g)
  \/ InputArgs(g, argv) = {}
  \/ \E i \in InputArgs(g, argv) : argv[i] = "missing.c"

\* an invocation that compiles in.c: one input, and neither help nor
\* interactive mode asked for
Compiles(g, argv) ==
  /\ ~Unusable(g, argv)
  /\ Cardinality(InputArgs(g, argv)) = 1
  /\ \A i \in 1..Len(argv) : argv[i] \notin {"-h", "-i", "empty.c"}
  /\ argv[Len(argv)] # "-o"

\* every stage of the compilation succeeds
Succeeds(v) ==
  /\ v.parse = "program" /\ v.codegen = "module" /\ v.verify
  /\ (\E i \in 1..Len(v.argv) : v.argv[i] = "-o") => v.output

\* C27: the exit status of either driver is 2 for an unusable invocation, 0
\* when the compilation of the input succeeds and 1 when a stage of it fails.
C27_ExitStatus ==
  pc = "done" =>
    /\ (Unusable(gen, inp.argv) /\ \A i \in 1..Len(inp.argv) : inp.argv[i] # "-h")
         => out = 2
    /\ Compiles(gen, inp.argv) => out = (IF Succeeds(inp) THEN 0 ELSE 1)

====
